---- MODULE Spec2Model ----
(***************************************************************************)
(* Model of the proxyprice data pipeline (backend/scripts):                *)
(*   parse_csv.py       tier lines and price cells of the CSV              *)
(*   normalize.py       tier repair, record aggregates, provider metadata  *)
(*   validate_output.py schema validation of the data files                *)
(*   run_pipeline.py    orchestration of the three scripts                 *)
(*                                                                         *)
(* Text.  A line is a sequence of tokens (digits, words, other characters) *)
(* and a regular expression a sequence of elements matched against it the  *)
(* way a backtracking matcher does.                                        *)
(*                                                                         *)
(* JSON values.  A dict field is a record [k, v]: k = "absent" when the    *)
(* key is missing, "null" for JSON null, "num" for a number.  Numbers are   *)
(* counted in units of 1/Scale (four decimal places), so that round(x, 4)  *)
(* is exact integer arithmetic: U(10) is 10 GB or $10, 45000 is 4.5.       *)
(***************************************************************************)
EXTENDS Integers, Sequences, FiniteSets, TLC

VARIABLES
    record,          \* the record given to normalize_pricing_record
    hashOrder,       \* iteration order of a set of tags in the running interpreter
    fixed_tiers,     \* what validate_and_fix_tiers returned
    result,          \* what normalize_pricing_record returned
    again,           \* what it returned when applied to its own result
    shuffled,        \* the record with its tiers in another order
    shuffled_result, \* what normalize_pricing_record returned for it
    pc,              \* position of the record-level run
    csv,             \* docs/Price.csv, row by row
    today,           \* date.today(), as a day number
    providers_raw,   \* data/raw/providers_raw.json
    pricing_raw,     \* data/raw/pricing_raw.json
    providers_json,  \* front/src/data/providers.json
    pricing_json,    \* front/src/data/pricing.json
    last_input,      \* the raw files the last normalize.py run read
    loaded,          \* the files the last validate_output.py run read
    skip_validation, \* run_pipeline's argument
    step,            \* position of run_pipeline
    outcome,         \* result of run_pipeline
    m_run,           \* run_pipeline: its step list, the frontend check, the exit code
    m_providers,     \* normalize.main: the provider list it loaded
    m_pricing_records,    \* normalize.main: the pricing records it loaded
    m_normalized_pricing, \* normalize.main: the records after normalization
    m_sorted_providers,   \* normalize.main: the provider list after the sort
    m_line,          \* the line given to parse_tier_line
    m_tier,          \* what parse_tier_line returned
    m_price_text,    \* the text given to parse_price_offers, line by line
    m_tiers,         \* what parse_price_offers returned
    m_object,        \* the object given to a validator of validate_output.py
    m_index,         \* the index given with it
    m_verdict,       \* whether the validator returned or raised
    m_error,         \* the SchemaValidationError it raised
    m_validated      \* the object it returned

normVars == <<record, fixed_tiers, result, again, shuffled, shuffled_result, pc>>
pipeVars == <<csv, today, providers_raw, pricing_raw, providers_json, pricing_json,
              last_input, loaded, skip_validation, step, outcome, m_run>>
provVars == <<m_providers, m_pricing_records, m_normalized_pricing, m_sorted_providers>>
parseVars == <<m_line, m_tier, m_price_text, m_tiers>>
checkVars == <<m_object, m_index, m_verdict, m_error, m_validated>>
\* what the record-level actions, and what the pipeline's actions, leave alone
notNorm == <<pipeVars, provVars, parseVars, checkVars>>
notPipe == <<normVars, provVars, parseVars, checkVars>>
vars == <<record, hashOrder, fixed_tiers, result, again, shuffled, shuffled_result, pc, csv, today, providers_raw,
          pricing_raw, providers_json, pricing_json, last_input, loaded, skip_validation,
          step, outcome, m_run, m_providers, m_pricing_records, m_normalized_pricing, m_sorted_providers,
          m_line, m_tier, m_price_text, m_tiers, m_object, m_index, m_verdict, m_error,
          m_validated>>

\* ------------------------------------------------------------------------
\* Bounds
MaxTiers == 3

\* round(calculated, 4): four decimal places
Scale == 10000

\* ------------------------------------------------------------------------
\* JSON field values
Absent == [k |-> "absent", v |-> 0]
Null == [k |-> "null", v |-> 0]
Num(n) == [k |-> "num", v |-> n]
AbsentB == [k |-> "absent", v |-> FALSE]
Bool(b) == [k |-> "bool", v |-> b]
Has(x) == x.k # "absent"
IsNum(x) == x.k = "num"

NoModel == "absent"
\* id, provider_id: the key is missing
NoId == "absent"
\* pricing_model: null
NullModel == "null"

valid_models == {"per_gb", "per_ip", "per_proxy", "per_thread", "unknown"}

\* n whole units (GB, dollars) in 1/Scale units
U(n) == n * Scale

\* A tier dict: the keys the normalizer reads, and keys it only carries
Tier(m, g, t, p) ==
    [pricing_model |-> m, gb |-> g, total |-> t, price_per_gb |-> p,
     price_per_ip |-> Absent, ips |-> Absent, min_gb |-> Absent, max_gb |-> Absent,
     min_ips |-> Absent, max_ips |-> Absent, min_tb |-> Absent, proxies |-> Absent,
     threads |-> Absent, period_hours |-> Absent, period_days |-> Absent,
     period_months |-> Absent, is_payg |-> AbsentB]

\* ------------------------------------------------------------------------
\* Round-half-even of n / d for d > 0 (Python's round on an exact quotient)
RoundHalfEven(n, d) ==
    LET q == n \div d
        r == n % d
    IN  IF 2 * r < d THEN q
        ELSE IF 2 * r > d THEN q + 1
        ELSE IF q % 2 = 0 THEN q ELSE q + 1

\* round(total / gb, 4) for gb > 0: the quotient's whole part, and its
\* remainder rounded to four decimal places
round4(total, gb) ==
    (total \div gb) * Scale + RoundHalfEven((total % gb) * Scale, gb)

\* ------------------------------------------------------------------------
\* Outcome of a call: status "ok" with a value, or "raised" (an exception
\* left the function; no value is returned).
Ok(x) == [status |-> "ok", value |-> x]
Raised(x) == [status |-> "raised", value |-> x]

\* Mutant of fix_tier: fills in price_per_gb only where the tier states none.
fix_tier_keep_stated(tier) ==
    IF tier.pricing_model = "per_gb" /\ Has(tier.gb) /\ Has(tier.total)
    THEN IF ~IsNum(tier.gb) THEN Raised(tier)
         ELSE IF tier.gb.v > 0
              THEN IF ~IsNum(tier.total) THEN Raised(tier)
                   ELSE IF Has(tier.price_per_gb) THEN Ok(tier)
                   ELSE Ok([tier EXCEPT !.price_per_gb = Num(round4(tier.total.v, tier.gb.v))])
              ELSE Ok(tier)
    ELSE Ok(tier)

\* Mutant of fix_tier: repairs tiers of every pricing model.
fix_tier_any_model(tier) ==
    IF Has(tier.gb) /\ Has(tier.total)
    THEN IF ~IsNum(tier.gb) THEN Raised(tier)
         ELSE IF tier.gb.v > 0
              THEN IF ~IsNum(tier.total) THEN Raised(tier)
                   ELSE Ok([tier EXCEPT !.price_per_gb = Num(round4(tier.total.v, tier.gb.v))])
              ELSE Ok(tier)
    ELSE Ok(tier)

\* validate_and_fix_tiers, loop body for one tier.  The condition is a
\* short-circuit `and`; `None > 0` and `None / gb` raise TypeError.
fix_tier(tier) ==
    IF tier.pricing_model = "per_gb" /\ Has(tier.gb) /\ Has(tier.total)
    THEN IF ~IsNum(tier.gb) THEN Raised(tier)
         ELSE IF tier.gb.v > 0
              THEN IF ~IsNum(tier.total) THEN Raised(tier)
                   ELSE Ok([tier EXCEPT !.price_per_gb = Num(round4(tier.total.v, tier.gb.v))])
              ELSE Ok(tier)
    ELSE Ok(tier)

validate_and_fix_tiers(tiers) ==
    LET fixed == [i \in 1..Len(tiers) |-> fix_tier(tiers[i])]
    IN  IF \E i \in 1..Len(tiers) : fixed[i].status = "raised"
        THEN Raised(tiers)
        ELSE Ok([i \in 1..Len(tiers) |-> fixed[i].value])

\* Mutant of PerGbPrices: collects price_per_gb from tiers of every model.
PerGbPrices_any_model(tiers) ==
    LET sel == SelectSeq(tiers, LAMBDA t : Has(t.price_per_gb))
    IN  [i \in 1..Len(sel) |-> sel[i].price_per_gb]

\* The list `prices` built by calculate_price_extremes.
PerGbPrices(tiers) ==
    LET sel == SelectSeq(tiers, LAMBDA t : t.pricing_model = "per_gb" /\ Has(t.price_per_gb))
    IN  [i \in 1..Len(sel) |-> sel[i].price_per_gb]

SeqMin(s) == CHOOSE x \in {s[i].v : i \in 1..Len(s)} : \A j \in 1..Len(s) : x <= s[j].v
SeqMax(s) == CHOOSE x \in {s[i].v : i \in 1..Len(s)} : \A j \in 1..Len(s) : x >= s[j].v

\* Mutant of calculate_price_extremes: the first and the last price of the
\* list stand for the least and the greatest.
calculate_price_extremes_first(tiers, extreme) ==
    LET prices == PerGbPrices(tiers)
    IN  IF Len(prices) = 0 THEN Ok(Null)
        ELSE IF Len(prices) = 1 THEN Ok(prices[1])
        ELSE IF \E i \in 1..Len(prices) : ~IsNum(prices[i]) THEN Raised(Null)
        ELSE Ok(IF extreme = "min" THEN prices[1] ELSE prices[Len(prices)])

\* calculate_price_extremes: min()/max() of one element returns it without a
\* comparison; with two or more, comparing None with anything raises.
calculate_price_extremes(tiers, extreme) ==
    LET prices == PerGbPrices(tiers)
    IN  IF Len(prices) = 0 THEN Ok(Null)
        ELSE IF Len(prices) = 1 THEN Ok(prices[1])
        ELSE IF \E i \in 1..Len(prices) : ~IsNum(prices[i]) THEN Raised(Null)
        ELSE Ok(Num(IF extreme = "min" THEN SeqMin(prices) ELSE SeqMax(prices)))

\* models = [t.get('pricing_model', 'unknown') for t in tiers]
ModelsOf(tiers) ==
    [i \in 1..Len(tiers) |->
        IF tiers[i].pricing_model = NoModel THEN "unknown" ELSE tiers[i].pricing_model]

Count(models, m) == Cardinality({i \in 1..Len(models) : models[i] = m})

PosIn(order, m) == CHOOSE i \in 1..Len(order) : order[i] = m

\* set(models) is filled in list order: the distinct tags in the order of
\* their first occurrence
InsertionOrder(models) ==
    LET firsts == SelectSeq([i \in 1..Len(models) |-> i],
                            LAMBDA i : \A j \in 1..(i - 1) : models[j] # models[i])
    IN  [k \in 1..Len(firsts) |-> models[firsts[k]]]

\* max(set(models), key=models.count): max() keeps the first maximal element
\* it meets, and it meets them in the iteration order of the set.  A set of
\* strings is a hash table: where a tag lands depends on the process's hash
\* seed and, when two tags collide, on which of them was inserted first.
\* order gives, for the running process, the iteration order of the set
\* built by each insertion order.
MostFrequent(models, order) ==
    LET tags == {models[i] : i \in 1..Len(models)}
        best == {m \in tags : \A n \in tags : Count(models, m) >= Count(models, n)}
        iter == order[InsertionOrder(models)]
    IN  CHOOSE m \in best : \A n \in best : PosIn(iter, m) <= PosIn(iter, n)

\* Mutant of WithDerived: tier_count is added to the count the record carries.
WithDerived_accumulate(rec, tiers, minp, maxp, model, comparable, count) ==
    [rec EXCEPT !.tiers = tiers,
                !.min_price_per_gb = minp,
                !.max_price_per_gb = maxp,
                !.pricing_model = model,
                !.comparable = Bool(comparable),
                !.tier_count = Num(count + rec.tier_count.v)]

\* {**record, ...}: the derived keys of a normalized record
WithDerived(rec, tiers, minp, maxp, model, comparable, count) ==
    [rec EXCEPT !.tiers = tiers,
                !.min_price_per_gb = minp,
                !.max_price_per_gb = maxp,
                !.pricing_model = model,
                !.comparable = Bool(comparable),
                !.tier_count = Num(count)]

\* record.get('tiers', []): iterating None raises TypeError
normalize_pricing_record(rec, order) ==
    IF rec.tiers.k = "null" THEN Raised(rec)
    ELSE
    LET arg == IF rec.tiers.k = "absent" THEN <<>> ELSE rec.tiers.v
        fixed == validate_and_fix_tiers(arg)
    IN  IF fixed.status = "raised" THEN Raised(rec)
        ELSE
        LET tiers == fixed.value
        IN  IF Len(tiers) = 0
            THEN Ok(WithDerived(rec, rec.tiers, Null, Null, "unknown", FALSE, 0))
            ELSE IF \E i \in 1..Len(tiers) : tiers[i].pricing_model = "per_gb"
            THEN LET mn == calculate_price_extremes(tiers, "min")
                     mx == calculate_price_extremes(tiers, "max")
                 IN  IF mn.status = "raised" \/ mx.status = "raised" THEN Raised(rec)
                     ELSE Ok(WithDerived(rec, [k |-> "list", v |-> tiers],
                                         mn.value, mx.value, "per_gb", TRUE, Len(tiers)))
            ELSE Ok(WithDerived(rec, [k |-> "list", v |-> tiers], Null, Null,
                                MostFrequent(ModelsOf(tiers), order), FALSE, Len(tiers)))

\* ------------------------------------------------------------------------
\* Inputs.  The tiers a raw pricing record may hold: what the parser writes
\* (per_gb tiers with quantity, total and price; bare unit prices; tiers of
\* other models) and what a raw JSON file may hold besides (nulls, a per_gb
\* tier with no price).
TierPool ==
    { Tier("per_gb", Num(U(10)), Num(U(45)), Num(U(5))),
      Tier("per_gb", Num(U(3)), Num(U(20)), Absent),
      Tier("per_gb", Num(0), Num(U(45)), Num(U(2))),
      [Tier("per_gb", Num(U(1)), Num(75000), Num(75000))
          EXCEPT !.min_gb = Num(U(1)), !.max_gb = Num(U(15))],
      Tier("per_gb", Absent, Absent, Num(U(5))),
      Tier("per_gb", Num(U(3)), Absent, Absent),
      Tier("per_gb", Null, Num(U(45)), Absent),
      Tier("per_gb", Num(U(3)), Null, Absent),
      Tier("per_gb", Absent, Absent, Null),
      [Tier("per_ip", Num(U(3)), Num(U(20)), Num(U(1))) EXCEPT !.price_per_ip = Num(U(2))],
      Tier("per_thread", Absent, Absent, Absent),
      Tier(NoModel, Absent, Num(U(45)), Absent) }

TierSeqs == UNION {[1..n -> TierPool] : n \in 0..MaxTiers}

RawRecord(tiers, hp) ==
    [provider_id |-> "a", has_pricing |-> hp, tiers |-> tiers,
     min_price_per_gb |-> Absent, max_price_per_gb |-> Absent,
     pricing_model |-> NoModel, comparable |-> AbsentB, tier_count |-> Absent]

Records ==
    {RawRecord([k |-> "list", v |-> ts], hp) : ts \in TierSeqs, hp \in BOOLEAN}
    \cup {RawRecord([k |-> "absent", v |-> <<>>], FALSE),
          RawRecord([k |-> "null", v |-> <<>>], FALSE)}

\* The orders of the positions 1..n, and the arrangements of a sequence
Perms(n) == {p \in [1..n -> 1..n] : \A i, j \in 1..n : p[i] = p[j] => i = j}
Arrangements(s) == {[i \in 1..Len(s) |-> s[p[i]]] : p \in Perms(Len(s))}

\* The insertion orders of the sets normalize_pricing_record builds for rec:
\* one set, and only when the tier list is non-empty and holds no per_gb tier
SetsBuilt(rec) ==
    IF /\ rec.tiers.k = "list"
       /\ Len(rec.tiers.v) > 0
       /\ \A i \in 1..Len(rec.tiers.v) : rec.tiers.v[i].pricing_model # "per_gb"
    THEN {InsertionOrder(ModelsOf(rec.tiers.v))}
    ELSE {}

\* What the hash seed of a process may decide: for each insertion order of
\* D, some iteration order of the same tags
HashOrders(D) ==
    {o \in [D -> UNION {Arrangements(s) : s \in D}] : \A s \in D : o[s] \in Arrangements(s)}

NoResult == [status |-> "none", value |-> RawRecord([k |-> "absent", v |-> <<>>], FALSE)]
NoTiers == [status |-> "none", value |-> <<>>]

\* ------------------------------------------------------------------------
\* parse_csv.py: lines of text and the regular expressions of the parser.
\*
\* A line is a sequence of tokens: a digit, a word, or one other character.
\* No expression of the parser can match a part of a word of this
\* vocabulary without matching all of it, except where the pattern says so
\* by listing the longer word too.
Digits == {"0", "1", "2", "3", "4", "5", "6", "7", "8", "9"}

DigitValue(d) ==
    CASE d = "0" -> 0
      [] d = "1" -> 1
      [] d = "2" -> 2
      [] d = "3" -> 3
      [] d = "4" -> 4
      [] d = "5" -> 5
      [] d = "6" -> 6
      [] d = "7" -> 7
      [] d = "8" -> 8
      [] d = "9" -> 9

Words ==
    {"GB", "gb", "IP", "IPs", "ips", "TB", "mo", "Mo", "month", "Day", "Days", "days",
     "Month", "Months", "Hour", "Hours", "Thread", "Threads", "threads", "Proxy",
     "Proxies", "Port", "Ports", "From", "per", "Per", "Pay as you go", "Pay", "Trial",
     "Plan", "Monthly", "Dedicated", "Contact", "sales"}

Marks == {" ", "$", "/", ":", "-", "+", "(", ")", ",", ".", "&"}

Vocabulary == Digits \cup Words \cup Marks

\* the character classes \s, ., [^$] and [A-Za-z0-9\s/()._-], token by token
Space == {" "}
AnyChar == Vocabulary
NotDollar == Vocabulary \ {"$"}
HeaderChars == Digits \cup Words \cup {" ", "/", "(", ")", ".", "-"}

\* line.strip()
RECURSIVE LStrip(_)
LStrip(line) ==
    IF Len(line) > 0 /\ line[1] \in Space THEN LStrip(Tail(line)) ELSE line
RECURSIVE RStrip(_)
RStrip(line) ==
    IF Len(line) > 0 /\ line[Len(line)] \in Space
    THEN RStrip(SubSeq(line, 1, Len(line) - 1)) ELSE line
Strip(line) == RStrip(LStrip(line))

\* Elements of a pattern: one token of a set; an optional one (x?); a
\* greedy run (x*); a lazy run (x*?); a captured number; the end of the line
One(S) == [e |-> "one", s |-> S, c |-> ""]
Maybe(S) == [e |-> "maybe", s |-> S, c |-> ""]
Many(S) == [e |-> "many", s |-> S, c |-> ""]
Few(S) == [e |-> "few", s |-> S, c |-> ""]
Number(c) == [e |-> "number", s |-> {}, c |-> c]
AtEnd == [e |-> "end", s |-> {}, c |-> ""]

\* The captured numbers of the parser:
\*   "int"      (\d+)
\*   "grouped"  (\d+(?:,\d{3})*)
\*   "decimal"  (\d+\.?\d*)
\*   "amount"   (\d+(?:,\d{3})*(?:\.\d+)?)
\*   "point"    (\d+(?:\.\d+)?)
RECURSIVE RunEnd(_, _, _)
\* the position behind the longest run of tokens of S that starts at pos
RunEnd(line, pos, S) ==
    IF pos <= Len(line) /\ line[pos] \in S THEN RunEnd(line, pos + 1, S) ELSE pos

RECURSIVE CommaGroups(_, _)
\* (?:,\d{3})* from pos on: the position behind the last group
CommaGroups(line, pos) ==
    IF /\ pos + 3 <= Len(line)
       /\ line[pos] = ","
       /\ \A i \in 1..3 : line[pos + i] \in Digits
    THEN CommaGroups(line, pos + 4)
    ELSE pos

\* The position behind the number of class c that starts at pos; 0 when no
\* digit stands at pos.  Every part of a number is greedy, and what follows
\* a number in a pattern is never a digit, a comma or a point, so that
\* giving back a part of it never lets the rest of the pattern match.
NumberEnd(c, line, pos) ==
    IF pos > Len(line) THEN 0
    ELSE IF line[pos] \notin Digits THEN 0
    ELSE
    LET run == RunEnd(line, pos, Digits)
        whole == IF c \in {"grouped", "amount"} THEN CommaGroups(line, run) ELSE run
        dot == whole <= Len(line) /\ line[whole] = "."
        frac == RunEnd(line, whole + 1, Digits)
    IN  CASE c \in {"int", "grouped"} -> whole
          [] c = "decimal" -> IF dot THEN frac ELSE whole
          [] c \in {"amount", "point"} -> IF dot /\ frac > whole + 1 THEN frac ELSE whole

RECURSIVE WholeValue(_, _, _)
\* the digits among line[from .. last] read as one integer, commas dropped
WholeValue(line, from, last) ==
    IF last < from THEN 0
    ELSE LET before == WholeValue(line, from, last - 1)
         IN  IF line[last] \in Digits THEN before * 10 + DigitValue(line[last]) ELSE before

RECURSIVE FractionValue(_, _, _, _)
\* the digits line[from .. last] behind the point, the first worth unit
FractionValue(line, from, last, unit) ==
    IF last < from THEN 0
    ELSE DigitValue(line[from]) * unit + FractionValue(line, from + 1, last, unit \div 10)

\* float() of the tokens line[from .. to - 1] of a number, in 1/Scale units
NumberValue(line, from, to) ==
    LET dots == {i \in from..(to - 1) : line[i] = "."}
        dot == IF dots = {} THEN to ELSE CHOOSE i \in dots : TRUE
    IN  WholeValue(line, from, dot - 1) * Scale
            + FractionValue(line, dot + 1, to - 1, Scale \div 10)

NoMatchAt == [ok |-> FALSE, caps |-> <<>>, end |-> 0]

MinOfSet(S) == CHOOSE x \in S : \A y \in S : x <= y
MaxOfSet(S) == CHOOSE x \in S : \A y \in S : x >= y

RECURSIVE MatchFrom(_, _, _)
\* For every position of the line, the match of the elements pat[k..] at
\* that position that a backtracking matcher finds first: ok, the captured
\* numbers in order, and the position behind the match.
MatchFrom(pat, k, line) ==
    IF k > Len(pat)
    THEN [pos \in 1..(Len(line) + 1) |-> [ok |-> TRUE, caps |-> <<>>, end |-> pos]]
    ELSE
    LET el == pat[k]
        rest == MatchFrom(pat, k + 1, line)
    IN  [pos \in 1..(Len(line) + 1) |->
            LET here == pos <= Len(line) /\ line[pos] \in el.s
            IN  CASE el.e = "one" ->
                        IF here THEN rest[pos + 1] ELSE NoMatchAt
                  [] el.e = "maybe" ->
                        IF here /\ rest[pos + 1].ok THEN rest[pos + 1] ELSE rest[pos]
                  [] el.e \in {"many", "few"} ->
                        LET ends == {e \in pos..RunEnd(line, pos, el.s) : rest[e].ok}
                        IN  IF ends = {} THEN NoMatchAt
                            ELSE rest[IF el.e = "many" THEN MaxOfSet(ends) ELSE MinOfSet(ends)]
                  [] el.e = "number" ->
                        LET e == NumberEnd(el.c, line, pos)
                        IN  IF e = 0 THEN NoMatchAt
                            ELSE IF rest[e].ok
                            THEN [rest[e] EXCEPT !.caps = <<NumberValue(line, pos, e)>> \o @]
                            ELSE NoMatchAt
                  [] el.e = "end" ->
                        IF pos = Len(line) + 1 THEN rest[pos] ELSE NoMatchAt]

\* the match of the whole pattern at position pos
MatchAt(pat, line, pos) == MatchFrom(pat, 1, line)[pos]

\* re.match: the pattern at the start of the line
re_match(pat, line) == MatchAt(pat, line, 1)

\* re.search: the pattern at the first position where it matches
re_search(pat, line) ==
    LET found == MatchFrom(pat, 1, line)
        starts == {p \in 1..(Len(line) + 1) : found[p].ok}
    IN  IF starts = {} THEN NoMatchAt ELSE found[MinOfSet(starts)]

\* re.fullmatch: the pattern from the start to the end of the line
re_fullmatch(pat, line) == MatchAt(pat \o <<AtEnd>>, line, 1)

\* ------------------------------------------------------------------------
\* parse_csv.py: parse_tier_line.
\*
\* The words a literal of a pattern can match.  Under re.IGNORECASE a
\* literal matches every spelling of the vocabulary; a literal after which
\* the pattern ends, or goes on with a run of any characters, also matches
\* the longer words it begins.
Spaces == Many(Space)
Lit(t) == One({t})
GB_cased == {"GB"}
GB_word == {"GB", "gb"}
IPs_cased == {"IP", "IPs"}
IP_cased == {"IP"}
IPs_word == {"IP", "IPs", "ips"}
Mo_word == {"mo", "Mo"}
Mo_cased_begins == {"mo", "month"}
Mo_begins == {"mo", "Mo", "month", "Month", "Months", "Monthly"}
Day_begins == {"Day", "Days", "days"}
Month_word == {"Month", "month"}
Month_begins == {"Month", "Months", "Monthly", "month"}
Hour_word == {"Hour", "Hours"}
Ports_word == {"Port", "Ports"}
Per_word == {"per", "Per"}
Threads_cased == {"Thread", "Threads"}
Proxies_cased == {"Proxy", "Proxies"}

\* What a rule of the cascade says about a line: whether its pattern
\* matched, and the tier it returns (none when it returns None).
Miss == [ok |-> FALSE, out |-> <<>>]
Hit(tier) == [ok |-> TRUE, out |-> <<tier>>]
HitNone == [ok |-> TRUE, out |-> <<>>]

\* an int of the source as a JSON number
AsInt(v) == Num(v \div Scale)

\* what a / b leaves in place of a quotient when b is 0: the division
\* raises, and no quotient is negative
ZeroDivisionError == -1

\* round(a / b, places), a and b in 1/Scale units
round_quotient(a, b, places) ==
    LET grain == Scale \div (10 ^ places)
    IN  IF b = 0 THEN ZeroDivisionError
        ELSE IF b % Scale = 0
        THEN RoundHalfEven(a, (b \div Scale) * grain) * grain
        ELSE (a \div b) * Scale + RoundHalfEven((a % b) * (Scale \div grain), b) * grain

\* round(gb * price, 2) for a whole number of GB
round_product(gb, price) == RoundHalfEven((gb \div Scale) * price, 100) * 100

\* est = total / price; rounded = int(round(est)); the count when
\* abs(est - rounded) < 1e-3 and rounded > 0, else none
derived_count(total, price) ==
    IF price > 0
    THEN LET rounded == round_quotient(total, price, 0) \div Scale
             off == total - rounded * price
             dist == IF off < 0 THEN 0 - off ELSE off
         IN  IF dist * 1000 < price /\ rounded > 0 THEN Num(rounded) ELSE Absent
    ELSE Absent

per_gb_tier(gb, price, total) == Tier("per_gb", Num(gb), Num(total), Num(price))
payg_tier(price) == [per_gb_tier(U(1), price, price) EXCEPT !.is_payg = Bool(TRUE)]
per_ip_tier(ips, price, total) ==
    [Tier("per_ip", Absent, Num(total), Absent) EXCEPT !.ips = ips, !.price_per_ip = Num(price)]
one_ip_tier(price) == per_ip_tier(Num(1), price, price)
per_proxy_tier(proxies, total) ==
    [Tier("per_proxy", Absent, Num(total), Absent) EXCEPT !.proxies = proxies]

\* Section headers like "Dedicated:", "Pay / GB:": [A-Za-z0-9\s/()._-]+:
section_header(line) ==
    re_fullmatch(<<One(HeaderChars), Many(HeaderChars), Lit(":")>>, line).ok

\* "X GB$Y/GB$Z"
match_gb(line) ==
    LET m == re_match(<<Number("grouped"), Spaces, One(GB_cased), Lit("$"), Number("decimal"),
                        Lit("/"), One(GB_cased), Lit("$"), Number("amount")>>, line)
    IN  IF m.ok THEN Hit(per_gb_tier(m.caps[1], m.caps[2], m.caps[3])) ELSE Miss

\* "X GB$Y$Z"
match_gb_implicit(line) ==
    LET m == re_match(<<Number("grouped"), Spaces, One(GB_cased), Lit("$"), Number("decimal"),
                        Lit("$"), Number("amount")>>, line)
    IN  IF m.ok THEN Hit(per_gb_tier(m.caps[1], m.caps[2], m.caps[3])) ELSE Miss

\* "X GB: $Y/GB"
match_gb_colon(line) ==
    LET m == re_match(<<Number("grouped"), Spaces, One(GB_word), Lit(":"), Spaces, Lit("$"),
                        Number("decimal"), Lit("/"), One(GB_word)>>, line)
    IN  IF m.ok
        THEN Hit(per_gb_tier(m.caps[1], m.caps[2], round_product(m.caps[1], m.caps[2])))
        ELSE Miss

\* "X GB: $Y/Mo"
match_gb_colon_monthly(line) ==
    LET m == re_match(<<Number("grouped"), Spaces, One(GB_word), Lit(":"), Spaces, Lit("$"),
                        Number("decimal"), Lit("/"), One(Mo_begins)>>, line)
    IN  IF m.ok
        THEN Hit(per_gb_tier(m.caps[1],
                             IF m.caps[1] > 0 THEN round_quotient(m.caps[2], m.caps[1], 4) ELSE 0,
                             m.caps[2]))
        ELSE Miss

range_gb_tier(min_gb, max_gb, price) ==
    [payg_tier(price) EXCEPT !.min_gb = Num(min_gb), !.max_gb = Num(max_gb)]

\* "X GB - Y GB: $Z/GB"
match_gb_range(line) ==
    LET m == re_match(<<Number("grouped"), Spaces, One(GB_word), Spaces, Lit("-"), Spaces, Number("grouped"),
                        Spaces, One(GB_word), Lit(":"), Spaces, Lit("$"), Number("decimal"), Lit("/"),
                        One(GB_word)>>, line)
    IN  IF m.ok THEN Hit(range_gb_tier(m.caps[1], m.caps[2], m.caps[3])) ELSE Miss

\* "X-Y GB: $Z/GB"
match_gb_range_compact(line) ==
    LET m == re_match(<<Number("grouped"), Spaces, Lit("-"), Spaces, Number("grouped"), Spaces, One(GB_word),
                        Lit(":"), Spaces, Lit("$"), Number("decimal"), Lit("/"), One(GB_word)>>,
                      line)
    IN  IF m.ok THEN Hit(range_gb_tier(m.caps[1], m.caps[2], m.caps[3])) ELSE Miss

\* "X IPs$Y/IP$Z"
match_ip(line) ==
    LET m == re_match(<<Number("grouped"), Spaces, One(IPs_cased), Lit("$"), Number("decimal"),
                        Lit("/"), One(IP_cased), Lit("$"), Number("amount")>>, line)
    IN  IF m.ok THEN Hit(per_ip_tier(AsInt(m.caps[1]), m.caps[2], m.caps[3])) ELSE Miss

\* "X IPs$Y$Z"
match_ip_implicit(line) ==
    LET m == re_match(<<Number("grouped"), Spaces, One(IPs_cased), Lit("$"), Number("decimal"),
                        Lit("$"), Number("amount")>>, line)
    IN  IF m.ok THEN Hit(per_ip_tier(AsInt(m.caps[1]), m.caps[2], m.caps[3])) ELSE Miss

\* "$TOTAL/X IPs": None when X is 0
match_total_over_ips(line) ==
    LET m == re_match(<<Lit("$"), Number("amount"), Spaces, Lit("/"), Spaces, Number("grouped"), Spaces,
                        One(IPs_word)>>, line)
    IN  IF m.ok
        THEN IF m.caps[2] <= 0 THEN HitNone
             ELSE Hit(per_ip_tier(AsInt(m.caps[2]), round_quotient(m.caps[1], m.caps[2], 4),
                                  m.caps[1]))
        ELSE Miss

\* "X Days$Y/IP" or "X Day Trial: $Y/IP"
match_days_per_ip(line) ==
    LET m == re_match(<<Number("int"), Spaces, One(Day_begins), Many(NotDollar), Spaces, Maybe({"$"}),
                        Number("decimal"), Lit("/"), One(IPs_word)>>, line)
    IN  IF m.ok THEN Hit([one_ip_tier(m.caps[2]) EXCEPT !.period_days = AsInt(m.caps[1])])
        ELSE Miss

\* "X Month: $Y/IP/Mo" or "X Months: $Y/IP"; the optional /Mo at the end
\* of the pattern changes neither the match nor its groups
match_months_per_ip(line) ==
    LET m == re_match(<<Number("int"), Spaces, One(Month_begins), Many(NotDollar), Spaces, Maybe({"$"}),
                        Number("decimal"), Lit("/"), One(IPs_word)>>, line)
    IN  IF m.ok THEN Hit([one_ip_tier(m.caps[2]) EXCEPT !.period_months = AsInt(m.caps[1])])
        ELSE Miss

\* "X GB: $Y/IP"
match_gb_bucket_per_ip(line) ==
    LET m == re_match(<<Number("grouped"), Spaces, One(GB_word), Maybe({"+"}), Spaces, Lit(":"), Spaces,
                        Lit("$"), Number("decimal"), Lit("/"), One(IPs_word)>>, line)
    IN  IF m.ok THEN Hit([one_ip_tier(m.caps[2]) EXCEPT !.min_gb = Num(m.caps[1])]) ELSE Miss

\* "From X TB+: $Y/IP"
match_tb_bucket_per_ip(line) ==
    LET m == re_match(<<Lit("From"), Spaces, Number("point"), Spaces, Lit("TB"), Maybe({"+"}), Spaces, Lit(":"),
                        Spaces, Lit("$"), Number("decimal"), Lit("/"), One(IPs_word)>>, line)
    IN  IF m.ok
        THEN Hit([one_ip_tier(m.caps[2]) EXCEPT !.min_gb = Num(m.caps[1] * 1000),
                                                !.min_tb = Num(m.caps[1])])
        ELSE Miss

\* "$X/mo (Y IPs): $Z/IP"
match_monthly_ip_parentheses(line) ==
    LET m == re_match(<<Lit("$"), Number("amount"), Spaces, Lit("/"), Spaces, One(Mo_word), Spaces, Lit("("),
                        Number("grouped"), Spaces, One(IPs_word), Lit(")"), Lit(":"), Spaces, Lit("$"),
                        Number("decimal"), Lit("/"), One(IPs_word)>>, line)
    IN  IF m.ok
        THEN Hit([per_ip_tier(AsInt(m.caps[2]), m.caps[3], m.caps[1])
                     EXCEPT !.period_months = Num(1)])
        ELSE Miss

\* "X Hours$Y/IP"
match_hours_per_ip(line) ==
    LET m == re_match(<<Number("int"), Spaces, One(Hour_word), Many(NotDollar), Spaces, Maybe({"$"}),
                        Number("decimal"), Lit("/"), One(IPs_word)>>, line)
    IN  IF m.ok THEN Hit([one_ip_tier(m.caps[2]) EXCEPT !.period_hours = AsInt(m.caps[1])])
        ELSE Miss

\* "$X/Y GB: $Z/GB"
match_plan_gb(line) ==
    LET m == re_match(<<Lit("$"), Number("amount"), Lit("/"), Number("int"), Spaces, One(GB_word),
                        Lit(":"), Spaces, Lit("$"), Number("decimal"), Lit("/"), One(GB_word)>>,
                      line)
    IN  IF m.ok THEN Hit(per_gb_tier(m.caps[2], m.caps[3], m.caps[1])) ELSE Miss

\* gb = round(total / price_per_gb, 4) if price_per_gb > 0 else 0
\* the same without the guard of the division
derived_gb_tier_unguarded(total, price) ==
    per_gb_tier(round_quotient(total, price, 4), price, total)

derived_gb_tier(total, price) ==
    per_gb_tier(IF price > 0 THEN round_quotient(total, price, 4) ELSE 0, price, total)

\* "$X/mo: $Y/GB"
match_month_total_per_gb(line) ==
    LET m == re_match(<<Lit("$"), Number("amount"), Spaces, Lit("/"), Spaces, One(Mo_word), Lit(":"), Spaces,
                        Lit("$"), Number("decimal"), Lit("/"), One(GB_word)>>, line)
    IN  IF m.ok THEN Hit(derived_gb_tier(m.caps[1], m.caps[2])) ELSE Miss

\* "$X: $Y/GB"
match_total_per_gb(line) ==
    LET m == re_match(<<Lit("$"), Number("amount"), Spaces, Lit(":"), Spaces, Lit("$"),
                        Number("decimal"), Lit("/"), One(GB_word)>>, line)
    IN  IF m.ok THEN Hit(derived_gb_tier(m.caps[1], m.caps[2])) ELSE Miss

\* "$X per GB"
match_per_gb_words(line) ==
    LET m == re_match(<<Lit("$"), Number("decimal"), Spaces, One(Per_word), Spaces, One(GB_word)>>, line)
    IN  IF m.ok THEN Hit(payg_tier(m.caps[1])) ELSE Miss

\* "Per Month: $X/IP"
match_per_month_ip(line) ==
    LET m == re_match(<<One(Per_word), Spaces, One(Month_word), Lit(":"), Spaces, Lit("$"),
                        Number("decimal"), Lit("/"), One(IPs_word)>>, line)
    IN  IF m.ok THEN Hit([one_ip_tier(m.caps[1]) EXCEPT !.period_months = Num(1)]) ELSE Miss

\* "X-Y IPs: $Z/IP"
match_ip_range(line) ==
    LET m == re_match(<<Number("grouped"), Spaces, Lit("-"), Spaces, Number("grouped"), Spaces, One(IPs_word),
                        Lit(":"), Spaces, Lit("$"), Number("decimal"), Lit("/"), One(IPs_word)>>,
                      line)
    IN  IF m.ok
        THEN Hit([one_ip_tier(m.caps[3]) EXCEPT !.min_ips = AsInt(m.caps[1]),
                                                !.max_ips = AsInt(m.caps[2])])
        ELSE Miss

\* "$TOTAL/COUNT Ports: $X/Port"
match_total_over_ports(line) ==
    LET m == re_match(<<Lit("$"), Number("amount"), Spaces, Lit("/"), Spaces, Number("grouped"), Spaces,
                        One(Ports_word), Lit(":"), Spaces, Lit("$"), Number("decimal"), Lit("/"),
                        One(Ports_word)>>, line)
    IN  IF m.ok THEN Hit(per_proxy_tier(AsInt(m.caps[2]), m.caps[1])) ELSE Miss

\* "$TOTAL/mo: $X/Port"
match_month_total_per_port(line) ==
    LET m == re_match(<<Lit("$"), Number("amount"), Spaces, Lit("/"), Spaces, One(Mo_word), Lit(":"), Spaces,
                        Lit("$"), Number("decimal"), Lit("/"), One(Ports_word)>>, line)
    IN  IF m.ok
        THEN Hit([per_proxy_tier(derived_count(m.caps[1], m.caps[2]), m.caps[1])
                     EXCEPT !.period_months = Num(1)])
        ELSE Miss

\* "Pay as you go: $X/GB"
match_payg(line) ==
    LET m == re_match(<<Lit("Pay as you go"), Lit(":"), Spaces, Lit("$"), Number("decimal"),
                        Lit("/"), One(GB_cased)>>, line)
    IN  IF m.ok THEN Hit(payg_tier(m.caps[1])) ELSE Miss

\* "Monthly Plan: $X/Y GB" or "$X/mo (Y GB)", anywhere in the line
match_monthly(line) ==
    LET first == re_search(<<Lit("$"), Number("grouped"), Lit("/"), One(Mo_cased_begins),
                             Few(AnyChar), Number("int"), Spaces, One(GB_cased)>>, line)
        m == IF first.ok THEN first
             ELSE re_search(<<Lit("$"), Number("grouped"), Lit("/"), Number("int"), Spaces,
                              One(GB_cased)>>, line)
    IN  IF m.ok
        THEN Hit(per_gb_tier(m.caps[2],
                             IF m.caps[2] > 0 THEN round_quotient(m.caps[1], m.caps[2], 2) ELSE 0,
                             m.caps[1]))
        ELSE Miss

\* "X Threads: $Y", anywhere in the line
match_thread(line) ==
    LET m == re_search(<<Number("int"), Spaces, One(Threads_cased), Few(AnyChar), Lit("$"),
                         Number("decimal")>>, line)
    IN  IF m.ok
        THEN Hit([Tier("per_thread", Absent, Num(m.caps[2]), Absent)
                     EXCEPT !.threads = AsInt(m.caps[1])])
        ELSE Miss

\* "X Proxies: $Y", anywhere in the line
match_proxy(line) ==
    LET m == re_search(<<Number("grouped"), Spaces, One(Proxies_cased), Few(AnyChar), Lit("$"),
                         Number("decimal")>>, line)
    IN  IF m.ok THEN Hit(per_proxy_tier(AsInt(m.caps[1]), m.caps[2])) ELSE Miss

\* "X Hours$Y", to the end of the line
match_hours_total(line) ==
    LET m == re_match(<<Number("int"), Spaces, One(Hour_word), Spaces, Maybe({"$"}), Number("amount"),
                        AtEnd>>, line)
    IN  IF m.ok
        THEN Hit([per_proxy_tier(Num(1), m.caps[2]) EXCEPT !.period_hours = AsInt(m.caps[1])])
        ELSE Miss

\* "X Day(s): $Y", to the end of the line
match_days_total(line) ==
    LET m == re_match(<<Number("int"), Spaces, One(Day_begins), Many(NotDollar), Spaces, Maybe({"$"}),
                        Number("amount"), AtEnd>>, line)
    IN  IF m.ok
        THEN Hit([per_proxy_tier(Num(1), m.caps[2]) EXCEPT !.period_days = AsInt(m.caps[1])])
        ELSE Miss

\* "$X/Mo: $Y/IP"
match_total_month_price_ip(line) ==
    LET m == re_match(<<Lit("$"), Number("amount"), Spaces, Lit("/"), Spaces, One(Mo_word), Lit(":"), Spaces,
                        Lit("$"), Number("decimal"), Lit("/"), One(IPs_word)>>, line)
    IN  IF m.ok
        THEN Hit([per_ip_tier(derived_count(m.caps[1], m.caps[2]), m.caps[2], m.caps[1])
                     EXCEPT !.period_months = Num(1)])
        ELSE Miss

\* "IPs/GB/$Total: $X/GB"
match_bundle_per_gb(line) ==
    LET m == re_match(<<Number("grouped"), Spaces, One(IPs_word), Spaces, Lit("/"), Spaces, Number("grouped"),
                        Spaces, One(GB_word), Spaces, Lit("/"), Spaces, Lit("$"), Number("amount"), Lit(":"),
                        Spaces, Lit("$"), Number("decimal"), Lit("/"), One(GB_word)>>, line)
    IN  IF m.ok
        THEN Hit([per_gb_tier(m.caps[2], m.caps[4], m.caps[3]) EXCEPT !.ips = AsInt(m.caps[1])])
        ELSE Miss

\* "X GB+: $Y/GB"
match_gb_plus(line) ==
    LET m == re_match(<<Number("grouped"), Spaces, One(GB_word), Lit("+"), Spaces, Lit(":"), Spaces, Lit("$"),
                        Number("decimal"), Lit("/"), One(GB_word)>>, line)
    IN  IF m.ok THEN Hit([payg_tier(m.caps[2]) EXCEPT !.min_gb = Num(m.caps[1])]) ELSE Miss

\* The rules in the order of the source
Cascade(line) ==
    << match_gb(line), match_gb_implicit(line), match_gb_colon(line),
       match_gb_colon_monthly(line), match_gb_range(line), match_gb_range_compact(line),
       match_ip(line), match_ip_implicit(line), match_total_over_ips(line),
       match_days_per_ip(line), match_months_per_ip(line), match_gb_bucket_per_ip(line),
       match_tb_bucket_per_ip(line), match_monthly_ip_parentheses(line),
       match_hours_per_ip(line), match_plan_gb(line), match_month_total_per_gb(line),
       match_total_per_gb(line), match_per_gb_words(line), match_per_month_ip(line),
       match_ip_range(line), match_total_over_ports(line), match_month_total_per_port(line),
       match_payg(line), match_monthly(line), match_thread(line), match_proxy(line),
       match_hours_total(line), match_days_total(line), match_total_month_price_ip(line),
       match_bundle_per_gb(line), match_gb_plus(line) >>

\* Mutant of parse_tier_line: the last rule that matches decides.
parse_tier_line_last_rule(raw) ==
    LET line == Strip(raw)
        hits == {k \in 1..Len(Cascade(line)) : Cascade(line)[k].ok}
    IN  IF line = <<>> \/ section_header(line) \/ hits = {} THEN <<>>
        ELSE Cascade(line)[MaxOfSet(hits)].out

\* Mutant of parse_tier_line: the section-header guard runs after the rules.
parse_tier_line_guard_last(raw) ==
    LET line == Strip(raw)
        hits == {k \in 1..Len(Cascade(line)) : Cascade(line)[k].ok}
    IN  IF line = <<>> THEN <<>>
        ELSE IF hits # {} THEN Cascade(line)[MinOfSet(hits)].out
        ELSE <<>>

\* parse_tier_line: the tier of one line, as a sequence of no tier (None)
\* or one
parse_tier_line(raw) ==
    LET line == Strip(raw)
    IN  IF line = <<>> THEN <<>>
        ELSE IF section_header(line) THEN <<>>
        ELSE IF match_gb(line).ok THEN match_gb(line).out
        ELSE IF match_gb_implicit(line).ok THEN match_gb_implicit(line).out
        ELSE IF match_gb_colon(line).ok THEN match_gb_colon(line).out
        ELSE IF match_gb_colon_monthly(line).ok THEN match_gb_colon_monthly(line).out
        ELSE IF match_gb_range(line).ok THEN match_gb_range(line).out
        ELSE IF match_gb_range_compact(line).ok THEN match_gb_range_compact(line).out
        ELSE IF match_ip(line).ok THEN match_ip(line).out
        ELSE IF match_ip_implicit(line).ok THEN match_ip_implicit(line).out
        ELSE IF match_total_over_ips(line).ok THEN match_total_over_ips(line).out
        ELSE IF match_days_per_ip(line).ok THEN match_days_per_ip(line).out
        ELSE IF match_months_per_ip(line).ok THEN match_months_per_ip(line).out
        ELSE IF match_gb_bucket_per_ip(line).ok THEN match_gb_bucket_per_ip(line).out
        ELSE IF match_tb_bucket_per_ip(line).ok THEN match_tb_bucket_per_ip(line).out
        ELSE IF match_monthly_ip_parentheses(line).ok
             THEN match_monthly_ip_parentheses(line).out
        ELSE IF match_hours_per_ip(line).ok THEN match_hours_per_ip(line).out
        ELSE IF match_plan_gb(line).ok THEN match_plan_gb(line).out
        ELSE IF match_month_total_per_gb(line).ok THEN match_month_total_per_gb(line).out
        ELSE IF match_total_per_gb(line).ok THEN match_total_per_gb(line).out
        ELSE IF match_per_gb_words(line).ok THEN match_per_gb_words(line).out
        ELSE IF match_per_month_ip(line).ok THEN match_per_month_ip(line).out
        ELSE IF match_ip_range(line).ok THEN match_ip_range(line).out
        ELSE IF match_total_over_ports(line).ok THEN match_total_over_ports(line).out
        ELSE IF match_month_total_per_port(line).ok THEN match_month_total_per_port(line).out
        ELSE IF match_payg(line).ok THEN match_payg(line).out
        ELSE IF match_monthly(line).ok THEN match_monthly(line).out
        ELSE IF match_thread(line).ok THEN match_thread(line).out
        ELSE IF match_proxy(line).ok THEN match_proxy(line).out
        ELSE IF match_hours_total(line).ok THEN match_hours_total(line).out
        ELSE IF match_days_total(line).ok THEN match_days_total(line).out
        ELSE IF match_total_month_price_ip(line).ok THEN match_total_month_price_ip(line).out
        ELSE IF match_bundle_per_gb(line).ok THEN match_bundle_per_gb(line).out
        ELSE IF match_gb_plus(line).ok THEN match_gb_plus(line).out
        ELSE <<>>

RECURSIVE parse_lines(_)
\* for line in lines: tier = parse_tier_line(line); if tier: tiers.append(tier)
parse_lines(lines) ==
    IF lines = <<>> THEN <<>>
    ELSE parse_tier_line(Head(lines)) \o parse_lines(Tail(lines))

\* Mutant of parse_price_offers: a tier equal to an earlier one is dropped.
parse_price_offers_distinct(text) ==
    LET all == parse_lines(text)
        kept == SelectSeq([i \in 1..Len(all) |-> i],
                          LAMBDA i : \A j \in 1..(i - 1) : all[j] # all[i])
    IN  [k \in 1..Len(kept) |-> all[kept[k]]]

\* parse_price_offers: a text is the sequence of its lines (split on
\* the line feed); the empty text is one empty line
parse_price_offers(text) ==
    IF \A i \in 1..Len(text) : Strip(text[i]) = <<>> THEN <<>>
    ELSE parse_lines(text)

\* ------------------------------------------------------------------------
\* Data files.  A JSON document on disk: a bare list of records (the raw
\* files) or an object wrapping the list with last_updated and total_count.
MissingFile ==
    [exists |-> FALSE, shape |-> "none", items |-> <<>>, last_updated |-> 0, total_count |-> 0]
ListFile(items) ==
    [exists |-> TRUE, shape |-> "list", items |-> items, last_updated |-> 0, total_count |-> 0]
ObjectFile(items, updated, count) ==
    [exists |-> TRUE, shape |-> "object", items |-> items, last_updated |-> updated,
     total_count |-> count]

\* A provider entry as parse_csv_file creates it (identity only; the
\* aggregates are keys add_provider_metadata adds)
Provider(id) ==
    [id |-> id, cheapest_price_per_gb |-> Absent, has_pricing_data |-> AbsentB,
     pricing_count |-> Absent]

\* ------------------------------------------------------------------------
\* parse_csv.py.  A row of the CSV is a provider name and its Price Offers
\* cell; the cell is given by whether it holds text and by the tiers its
\* lines parse to.
Row(name, has_text, tiers) == [name |-> name, has_text |-> has_text, tiers |-> tiers]

\* the pricing record of one row: both branches of `if tiers or has_any_pricing`
RowRecord(row) ==
    IF Len(row.tiers) > 0 \/ row.has_text
    THEN [RawRecord([k |-> "list", v |-> row.tiers], row.has_text)
             EXCEPT !.provider_id = row.name]
    ELSE [RawRecord([k |-> "list", v |-> <<>>], FALSE) EXCEPT !.provider_id = row.name]

\* parse_csv_file: providers in order of first appearance, one pricing
\* record per row
parse_csv_file(rows) ==
    LET firsts == SelectSeq([i \in 1..Len(rows) |-> i],
                            LAMBDA i : \A j \in 1..(i - 1) : rows[j].name # rows[i].name)
    IN  [providers |-> [k \in 1..Len(firsts) |-> Provider(rows[firsts[k]].name)],
         pricing |-> [i \in 1..Len(rows) |-> RowRecord(rows[i])]]

\* ------------------------------------------------------------------------
\* normalize.py: provider metadata, provider order, main

MinOf(S) == CHOOSE x \in S : \A y \in S : x <= y

\* Mutant of add_provider_metadata: the aggregates range over the records of
\* every provider.
add_provider_metadata_all_records(providers, pricing_records) ==
    [k \in 1..Len(providers) |->
        LET provider_pricing == pricing_records
            min_prices ==
                {provider_pricing[i].min_price_per_gb.v :
                    i \in {j \in 1..Len(provider_pricing) :
                              IsNum(provider_pricing[j].min_price_per_gb)}}
        IN  [providers[k] EXCEPT
                !.cheapest_price_per_gb =
                    IF min_prices = {} THEN Null ELSE Num(MinOf(min_prices)),
                !.has_pricing_data =
                    Bool(\E i \in 1..Len(provider_pricing) : provider_pricing[i].has_pricing),
                !.pricing_count = Num(Len(provider_pricing))]]

\* Mutant of add_provider_metadata: has_pricing_data tells whether a record
\* of the provider has tiers.
add_provider_metadata_parsed(providers, pricing_records) ==
    [k \in 1..Len(providers) |->
        LET provider_pricing ==
                SelectSeq(pricing_records, LAMBDA p : p.provider_id = providers[k].id)
            min_prices ==
                {provider_pricing[i].min_price_per_gb.v :
                    i \in {j \in 1..Len(provider_pricing) :
                              IsNum(provider_pricing[j].min_price_per_gb)}}
        IN  [providers[k] EXCEPT
                !.cheapest_price_per_gb =
                    IF min_prices = {} THEN Null ELSE Num(MinOf(min_prices)),
                !.has_pricing_data =
                    Bool(\E i \in 1..Len(provider_pricing) :
                            provider_pricing[i].tier_count.v > 0),
                !.pricing_count = Num(Len(provider_pricing))]]

add_provider_metadata(providers, pricing_records) ==
    [k \in 1..Len(providers) |->
        LET provider_pricing ==
                SelectSeq(pricing_records, LAMBDA p : p.provider_id = providers[k].id)
            min_prices ==
                {provider_pricing[i].min_price_per_gb.v :
                    i \in {j \in 1..Len(provider_pricing) :
                              IsNum(provider_pricing[j].min_price_per_gb)}}
        IN  [providers[k] EXCEPT
                !.cheapest_price_per_gb =
                    IF min_prices = {} THEN Null ELSE Num(MinOf(min_prices)),
                !.has_pricing_data =
                    Bool(\E i \in 1..Len(provider_pricing) : provider_pricing[i].has_pricing),
                !.pricing_count = Num(Len(provider_pricing))]]

\* Mutant of KeyLess: a null key is below every number.
KeyLess_nulls_first(p, q) ==
    \/ ~IsNum(p.cheapest_price_per_gb) /\ IsNum(q.cheapest_price_per_gb)
    \/ /\ IsNum(p.cheapest_price_per_gb) /\ IsNum(q.cheapest_price_per_gb)
       /\ p.cheapest_price_per_gb.v < q.cheapest_price_per_gb.v

\* key=lambda p: (cheapest is None, cheapest): tuple order; two null keys
\* are equal without their second components being compared
KeyLess(p, q) ==
    \/ IsNum(p.cheapest_price_per_gb) /\ ~IsNum(q.cheapest_price_per_gb)
    \/ /\ IsNum(p.cheapest_price_per_gb) /\ IsNum(q.cheapest_price_per_gb)
       /\ p.cheapest_price_per_gb.v < q.cheapest_price_per_gb.v

\* x placed behind every element of the sorted s whose key is not greater
InsertSorted(s, x) ==
    LET k == Cardinality({i \in 1..Len(s) : ~KeyLess(x, s[i])})
    IN  SubSeq(s, 1, k) \o <<x>> \o SubSeq(s, k + 1, Len(s))

RECURSIVE SortProviders(_)
\* list.sort(key=...): a stable sort
SortProviders(s) ==
    IF Len(s) = 0 THEN <<>>
    ELSE InsertSorted(SortProviders(SubSeq(s, 1, Len(s) - 1)), s[Len(s)])

\* normalize.main: load both raw files, normalize every record, add the
\* provider metadata, sort the providers, and write both documents stamped
\* with today's date.  An exception leaves before anything is written.
normalize_main(providers_file, pricing_file, day, order) ==
    IF ~providers_file.exists \/ ~pricing_file.exists THEN Raised(<<>>)
    ELSE
    LET outs == [i \in 1..Len(pricing_file.items) |->
                    normalize_pricing_record(pricing_file.items[i], order)]
    IN  IF \E i \in 1..Len(outs) : outs[i].status = "raised" THEN Raised(<<>>)
        ELSE
        LET normalized_pricing == [i \in 1..Len(outs) |-> outs[i].value]
            providers_with_metadata ==
                SortProviders(add_provider_metadata(providers_file.items, normalized_pricing))
        IN  Ok([providers |-> ObjectFile(providers_with_metadata, day,
                                         Len(providers_with_metadata)),
                pricing |-> ObjectFile(normalized_pricing, day, Len(normalized_pricing))])

\* ------------------------------------------------------------------------
\* validate_output.py, on the keys the model carries

\* validate_nonnegative_number: null passes, a negative number raises
nonnegative_ok(x) == ~IsNum(x) \/ x.v >= 0

\* validate_nonnegative_int(d.get(key, 0)): a missing key passes, null raises
nonnegative_int_ok(x) == x = Absent \/ (IsNum(x) /\ x.v >= 0)

\* the keys validate_tier reads; every other key is copied by its last loop
tier_keys == {"gb", "price_per_gb", "total", "pricing_model", "is_payg", "price_per_ip", "ips"}

\* validate_tier without the loop over the other keys
validate_tier_known_keys(tier) ==
    LET blank == Tier(NoModel, Absent, Absent, Absent)
        accepted ==
            /\ \A f \in {"gb", "price_per_gb", "total", "price_per_ip"} :
                  ~IsNum(tier[f]) \/ tier[f].v >= 0
            /\ (tier.pricing_model = NoModel \/ tier.pricing_model \in valid_models)
            /\ (IsNum(tier.ips) => tier.ips.v > 0)
    IN  IF accepted
        THEN Ok([f \in DOMAIN tier |->
                    IF f = "pricing_model"
                    THEN (IF tier.pricing_model = NoModel THEN "unknown" ELSE tier.pricing_model)
                    ELSE IF f \in tier_keys /\ tier[f].k # "null" THEN tier[f] ELSE blank[f]])
        ELSE Raised(tier)

validate_tier(tier) ==
    IF /\ nonnegative_ok(tier.gb)
       /\ nonnegative_ok(tier.price_per_gb)
       /\ nonnegative_ok(tier.total)
       /\ (tier.pricing_model = NoModel \/ tier.pricing_model \in valid_models)
       /\ nonnegative_ok(tier.price_per_ip)
       /\ (IsNum(tier.ips) => tier.ips.v > 0)
    THEN Ok([tier EXCEPT !.pricing_model =
                 IF tier.pricing_model = NoModel THEN "unknown" ELSE tier.pricing_model])
    ELSE Raised(tier)

validate_pricing_record(rec) ==
    LET tiers == IF rec.tiers.k = "list" THEN rec.tiers.v ELSE <<>>
        vt == [i \in 1..Len(tiers) |-> validate_tier(tiers[i])]
    IN  IF /\ rec.provider_id # NoId
           /\ nonnegative_int_ok(rec.tier_count)
           /\ nonnegative_ok(rec.min_price_per_gb)
           /\ nonnegative_ok(rec.max_price_per_gb)
           /\ \A i \in 1..Len(tiers) : vt[i].status = "ok"
        THEN Ok([rec EXCEPT
                    !.pricing_model = IF rec.pricing_model \in {NoModel, NullModel} THEN "unknown"
                                      ELSE rec.pricing_model,
                    !.comparable = IF Has(rec.comparable) THEN rec.comparable ELSE Bool(FALSE),
                    !.tier_count = IF Has(rec.tier_count) THEN rec.tier_count ELSE Num(0),
                    !.min_price_per_gb = IF IsNum(rec.min_price_per_gb)
                                         THEN rec.min_price_per_gb ELSE Null,
                    !.max_price_per_gb = IF IsNum(rec.max_price_per_gb)
                                         THEN rec.max_price_per_gb ELSE Null,
                    !.tiers = [k |-> "list", v |-> [i \in 1..Len(tiers) |-> vt[i].value]]])
        ELSE Raised(rec)

\* validate_provider without the check of the id
validate_provider_any_id(provider) ==
    IF (~Has(provider.pricing_count) \/ (IsNum(provider.pricing_count)
                                          /\ provider.pricing_count.v >= 0))
       /\ (~IsNum(provider.cheapest_price_per_gb) \/ provider.cheapest_price_per_gb.v >= 0)
    THEN Ok([provider EXCEPT
                !.has_pricing_data = IF Has(provider.has_pricing_data)
                                     THEN provider.has_pricing_data ELSE Bool(FALSE),
                !.pricing_count = IF Has(provider.pricing_count)
                                  THEN provider.pricing_count ELSE Num(0),
                !.cheapest_price_per_gb = IF IsNum(provider.cheapest_price_per_gb)
                                          THEN provider.cheapest_price_per_gb ELSE Null])
    ELSE Raised(provider)

validate_provider(provider) ==
    IF /\ provider.id # NoId
       /\ nonnegative_int_ok(provider.pricing_count)
       /\ nonnegative_ok(provider.cheapest_price_per_gb)
    THEN Ok([provider EXCEPT
                !.has_pricing_data = IF Has(provider.has_pricing_data)
                                     THEN provider.has_pricing_data ELSE Bool(FALSE),
                !.pricing_count = IF Has(provider.pricing_count)
                                  THEN provider.pricing_count ELSE Num(0),
                !.cheapest_price_per_gb = IF IsNum(provider.cheapest_price_per_gb)
                                          THEN provider.cheapest_price_per_gb ELSE Null])
    ELSE Raised(provider)

\* SchemaValidationError(message, path, value).  A path is a sequence of
\* segments: name[index] for an element of a list, name for a key.
Seg(name, index) == [name |-> name, index |-> index]
Key(name) == Seg(name, -1)
Str(text) == [k |-> "str", v |-> text]
SchemaValidationError(path, value) == [path |-> path, value |-> value]
NoError == SchemaValidationError(<<>>, Absent)

\* the value a key of a tier or of a record holds
FieldValue(obj, f) ==
    IF f \in {"pricing_model", "id", "provider_id"} THEN Str(obj[f]) ELSE obj[f]

\* the checks of validate_tier in the order it makes them, and what each
\* of them accepts
tier_checks == <<"gb", "price_per_gb", "total", "pricing_model", "price_per_ip", "ips">>
tier_check_ok(tier, f) ==
    CASE f = "pricing_model" -> tier.pricing_model = NoModel \/ tier.pricing_model \in valid_models
      [] f = "ips" -> IsNum(tier.ips) => tier.ips.v > 0
      [] OTHER -> nonnegative_ok(tier[f])

\* the first check of a sequence of checks that fails, 0 when none does
FirstFailing(holds) ==
    IF \A i \in 1..Len(holds) : holds[i] THEN 0
    ELSE CHOOSE i \in 1..Len(holds) : ~holds[i] /\ \A j \in 1..(i - 1) : holds[j]

\* the error validate_tier(tier, index) raises, NoError when it returns
validate_tier_error(tier, index) ==
    LET path_prefix == <<Seg("tiers", index)>>
        failing == FirstFailing([i \in 1..Len(tier_checks) |->
                                    tier_check_ok(tier, tier_checks[i])])
    IN  IF failing = 0 THEN NoError
        ELSE SchemaValidationError(path_prefix \o <<Key(tier_checks[failing])>>,
                                   FieldValue(tier, tier_checks[failing]))

\* the error validate_pricing_record(record, index) raises: the checks of
\* the record's own keys come first, then its tiers one by one, each with
\* its position in the list as index
record_checks == <<"provider_id", "tier_count", "min_price_per_gb", "max_price_per_gb">>
record_check_ok(rec, f) ==
    CASE f = "provider_id" -> rec.provider_id # NoId
      [] f = "tier_count" -> nonnegative_int_ok(rec.tier_count)
      [] OTHER -> nonnegative_ok(rec[f])

validate_pricing_record_error(rec, index) ==
    LET path_prefix == <<Seg("pricing", index)>>
        tiers == IF rec.tiers.k = "list" THEN rec.tiers.v ELSE <<>>
        failing == FirstFailing([i \in 1..Len(record_checks) |->
                                    record_check_ok(rec, record_checks[i])])
        failing_tier == FirstFailing([i \in 1..Len(tiers) |->
                                         validate_tier_error(tiers[i], i - 1) = NoError])
    IN  IF failing # 0
        THEN SchemaValidationError(path_prefix \o <<Key(record_checks[failing])>>,
                                   FieldValue(rec, record_checks[failing]))
        ELSE IF failing_tier # 0
        THEN validate_tier_error(tiers[failing_tier], failing_tier - 1)
        ELSE NoError

\* the error validate_provider(provider, index) raises
provider_checks == <<"id", "pricing_count", "cheapest_price_per_gb">>
provider_check_ok(provider, f) ==
    CASE f = "id" -> provider.id # NoId
      [] f = "pricing_count" -> nonnegative_int_ok(provider.pricing_count)
      [] OTHER -> nonnegative_ok(provider[f])

validate_provider_error(provider, index) ==
    LET path_prefix == <<Seg("providers", index)>>
        failing == FirstFailing([i \in 1..Len(provider_checks) |->
                                    provider_check_ok(provider, provider_checks[i])])
    IN  IF failing = 0 THEN NoError
        ELSE SchemaValidationError(path_prefix \o <<Key(provider_checks[failing])>>,
                                   FieldValue(provider, provider_checks[failing]))

\* Top-level JSON values given to validate_providers_data and
\* validate_pricing_data: a list of records, an object (with or without
\* the "providers"/"pricing" key, with or without metadata), or any other
\* value.  last_updated is a day number when it is a date string, -1 when
\* it is a string that is no date, null when it is no string.
Document(shape, has_key, items, updated, count) ==
    [shape |-> shape, has_key |-> has_key, items |-> items, last_updated |-> updated,
     total_count |-> count]
BareList(items) == Document("list", FALSE, items, Absent, Absent)
Wrapping(items, updated, count) == Document("object", TRUE, items, updated, count)

\* validate_date_string
date_ok(x) == IsNum(x) /\ x.v >= 0

\* validate_providers_data / validate_pricing_data, which differ by the
\* key, the record validator and the name in the error path: `records` is
\* what the record validator makes of each item, `errors` what it raises
validate_data(records, data, day) ==
    LET accepted == \A i \in 1..Len(data.items) : records[i].status = "ok"
        validated == [i \in 1..Len(data.items) |-> records[i].value]
        last_updated == IF Has(data.last_updated) THEN data.last_updated ELSE Num(day)
        total_count == IF Has(data.total_count) THEN data.total_count ELSE Num(Len(validated))
    IN  IF data.shape = "list"
        THEN IF accepted THEN Ok(BareList(validated)) ELSE Raised(data)
        ELSE IF data.shape # "object" THEN Raised(data)
        ELSE IF data.has_key
        THEN IF accepted /\ date_ok(last_updated) /\ nonnegative_int_ok(total_count)
             THEN Ok(Wrapping(validated, last_updated, total_count))
             ELSE Raised(data)
        ELSE Raised(data)

validate_data_error(name, errors, data, day) ==
    LET failing == FirstFailing([i \in 1..Len(data.items) |-> errors[i] = NoError])
        last_updated == IF Has(data.last_updated) THEN data.last_updated ELSE Num(day)
        total_count == IF Has(data.total_count) THEN data.total_count ELSE Num(Len(data.items))
        structure == SchemaValidationError(<<Key(name \o "_data")>>, Str(data.shape))
    IN  IF data.shape \notin {"list", "object"} THEN structure
        ELSE IF data.shape = "object" /\ ~data.has_key THEN structure
        ELSE IF failing # 0 THEN errors[failing]
        ELSE IF data.shape = "list" THEN NoError
        ELSE IF ~date_ok(last_updated)
        THEN SchemaValidationError(<<Key("last_updated")>>, last_updated)
        ELSE IF ~nonnegative_int_ok(total_count)
        THEN SchemaValidationError(<<Key("total_count")>>, total_count)
        ELSE NoError

validate_providers_data(data, day) ==
    validate_data([i \in 1..Len(data.items) |-> validate_provider(data.items[i])], data, day)
validate_pricing_data(data, day) ==
    validate_data([i \in 1..Len(data.items) |-> validate_pricing_record(data.items[i])],
                  data, day)
validate_providers_data_error(data, day) ==
    validate_data_error("providers",
                        [i \in 1..Len(data.items) |->
                            validate_provider_error(data.items[i], i - 1)], data, day)
validate_pricing_data_error(data, day) ==
    validate_data_error("pricing",
                        [i \in 1..Len(data.items) |->
                            validate_pricing_record_error(data.items[i], i - 1)], data, day)

\* validate_providers_file / validate_pricing_file: load the file, validate
\* every record of it; TRUE when no exception is raised
validate_providers_file(file) ==
    file.exists /\ \A i \in 1..Len(file.items) : validate_provider(file.items[i]).status = "ok"

validate_pricing_file(file) ==
    file.exists
    /\ \A i \in 1..Len(file.items) : validate_pricing_record(file.items[i]).status = "ok"

\* validate_output.main: the exit code, given the two files it loads.  The
\* cross-reference check only logs.
validate_main_exit(providers_file, pricing_file) ==
    LET errors == (IF validate_providers_file(providers_file) THEN {} ELSE {"providers"})
                  \cup (IF validate_pricing_file(pricing_file) THEN {} ELSE {"pricing"})
    IN  IF errors = {} THEN 0 ELSE 1

\* A file as load_json_file finds it: missing, not JSON, or a JSON value
JsonFile(exists, parses, data) == [exists |-> exists, parses |-> parses, data |-> data]
load_json_file(file) == IF file.exists /\ file.parses THEN Ok(file.data) ELSE Raised(file)

\* validate_cross_reference_consistency: the ids of the two files and what
\* it logs about them; p['id'] raises KeyError on a record without the key
listed(data) == data.shape = "list" \/ (data.shape = "object" /\ data.has_key)
validate_cross_reference_consistency(providers_data, pricing_data) ==
    LET providers == IF listed(providers_data) THEN providers_data.items ELSE <<>>
        pricing == IF listed(pricing_data) THEN pricing_data.items ELSE <<>>
        provider_ids == {providers[i].id : i \in 1..Len(providers)}
        pricing_provider_ids == {pricing[i].provider_id : i \in 1..Len(pricing)}
        findings == [orphaned_pricing |-> pricing_provider_ids \ provider_ids,
                     providers_without_pricing |-> provider_ids \ pricing_provider_ids]
    IN  IF NoId \in provider_ids \cup pricing_provider_ids
        THEN Raised(findings)
        ELSE Ok(findings)

\* validate_output.main on the two files it reads: the errors it collects,
\* whether the cross-reference check ran and what it found, the exit code
NoFindings == [orphaned_pricing |-> {}, providers_without_pricing |-> {}]
validate_output_main(providers_file, pricing_file, day) ==
    LET providers_loaded == load_json_file(providers_file)
        pricing_loaded == load_json_file(pricing_file)
        providers_failed ==
            \/ providers_loaded.status = "raised"
            \/ validate_providers_data(providers_file.data, day).status = "raised"
        pricing_failed ==
            \/ pricing_loaded.status = "raised"
            \/ validate_pricing_data(pricing_file.data, day).status = "raised"
        file_errors == (IF providers_failed THEN <<"Providers validation failed">> ELSE <<>>)
                       \o (IF pricing_failed THEN <<"Pricing validation failed">> ELSE <<>>)
        cross_referenced == file_errors = <<>>
        cross_reference ==
            validate_cross_reference_consistency(providers_file.data, pricing_file.data)
        errors == IF cross_referenced /\ cross_reference.status = "raised"
                  THEN file_errors \o <<"Cross-reference validation failed">>
                  ELSE file_errors
    IN  [errors |-> errors,
         cross_referenced |-> cross_referenced,
         findings |-> IF cross_referenced THEN cross_reference.value ELSE NoFindings,
         exit |-> IF errors # <<>> THEN 1 ELSE 0]

\* ------------------------------------------------------------------------
\* run_pipeline.py

\* the step list run_pipeline builds; each PipelineStep records whether it
\* was run, the exit code of its script, and its success attribute
NoExit == -1
PipelineStep(name) == [name |-> name, ran |-> FALSE, returncode |-> NoExit, success |-> FALSE]
StepList(skip) ==
    <<PipelineStep("Parse CSV"), PipelineStep("Normalize Data")>>
    \o (IF skip THEN <<>> ELSE <<PipelineStep("Validate Output")>>)
NoRun == [steps |-> <<>>, verified |-> "not run", exit |-> NoExit]

\* PipelineStep.run: a step that trusts its script whatever it returned
PipelineStep_run_any(returncode) == TRUE

\* PipelineStep.run: False when the script exits with a code other than 0
PipelineStep_run(returncode) == returncode = 0

\* the i-th step of the list after it ran
StepRan(run, i, returncode) ==
    [run EXCEPT !.steps[i] = [@ EXCEPT !.ran = TRUE, !.returncode = returncode,
                                       !.success = PipelineStep_run(returncode)]]

\* copy_data_to_frontend: both documents must exist in the frontend
copy_data_to_frontend(providers_file, pricing_file) ==
    providers_file.exists /\ pricing_file.exists

\* main: sys.exit(0 if success else 1)
Exited(run, success) == [run EXCEPT !.exit = IF success THEN 0 ELSE 1]

\* ------------------------------------------------------------------------
\* Pipeline inputs
MaxRows == 2
MaxDay == 1

\* Price Offers cells: blank; text that parses to nothing; a per_gb line
\* with quantity, price and total; a pay-as-you-go line; a per_ip line
\* stating zero IPs; a per_ip line followed by a per_thread line
Offers ==
    { [has_text |-> FALSE, tiers |-> <<>>],
      [has_text |-> TRUE, tiers |-> <<>>],
      [has_text |-> TRUE, tiers |-> <<Tier("per_gb", Num(U(10)), Num(U(45)), Num(U(5)))>>],
      [has_text |-> TRUE, tiers |-> <<Tier("per_gb", Num(U(1)), Num(75000), Num(75000))>>],
      [has_text |-> TRUE,
       tiers |-> << [Tier("per_ip", Absent, Num(0), Absent)
                        EXCEPT !.ips = Num(0), !.price_per_ip = Num(U(1))] >>],
      [has_text |-> TRUE,
       tiers |-> << [Tier("per_ip", Absent, Num(U(20)), Absent)
                        EXCEPT !.ips = Num(10), !.price_per_ip = Num(U(2))],
                    [Tier("per_thread", Absent, Num(U(5)), Absent)
                        EXCEPT !.threads = Num(5)] >>] }

CsvRows == {Row(n, o.has_text, o.tiers) : n \in {"a", "b"}, o \in Offers}

NoCsv == [exists |-> FALSE, rows |-> <<>>]
CsvInputs ==
    {NoCsv} \cup {[exists |-> TRUE, rows |-> r] : r \in UNION {[1..n -> CsvRows] : n \in 1..MaxRows}}

NoFiles == [providers |-> MissingFile, pricing |-> MissingFile]

\* The pipeline's variables while no pipeline exists (record-level runs)
PipelineIdle ==
    /\ csv = NoCsv
    /\ today = 0
    /\ providers_raw = MissingFile
    /\ pricing_raw = MissingFile
    /\ providers_json = MissingFile
    /\ pricing_json = MissingFile
    /\ last_input = NoFiles
    /\ loaded = NoFiles
    /\ skip_validation = FALSE
    /\ step = "idle"
    /\ outcome = "none"
    /\ m_run = NoRun

\* normalize.main's locals while main is not modelled step by step
ProvidersIdle ==
    /\ m_providers = <<>>
    /\ m_pricing_records = <<>>
    /\ m_normalized_pricing = <<>>
    /\ m_sorted_providers = <<>>

\* the parser's variables while no line or text is being parsed
ParserIdle ==
    /\ m_line = <<>>
    /\ m_tier = <<>>
    /\ m_price_text = <<>>
    /\ m_tiers = <<>>

\* the validator's variables while no object is being validated
NoObject == [kind |-> "none", value |-> <<>>]
ValidatorIdle ==
    /\ m_object = NoObject
    /\ m_index = 0
    /\ m_verdict = "none"
    /\ m_error = NoError
    /\ m_validated = <<>>

\* ------------------------------------------------------------------------
\* Record-level specification: one interpreter process, a record, and
\* normalize_pricing_record applied to it and then to its own output.
Init ==
    /\ record \in Records
    /\ hashOrder \in HashOrders(SetsBuilt(record))
    /\ fixed_tiers = NoTiers
    /\ result = NoResult
    /\ again = NoResult
    /\ shuffled = record
    /\ shuffled_result = NoResult
    /\ pc = "start"
    /\ PipelineIdle
    /\ ProvidersIdle
    /\ ParserIdle
    /\ ValidatorIdle

\* normalize_pricing_record(record); fixed_tiers is what validate_and_fix_tiers returned to it
Normalize ==
    /\ pc = "start"
    /\ fixed_tiers' = (IF record.tiers.k = "null" THEN Raised(<<>>)
                       ELSE validate_and_fix_tiers(IF record.tiers.k = "absent" THEN <<>> ELSE record.tiers.v))
    /\ result' = normalize_pricing_record(record, hashOrder)
    /\ pc' = "normalized"
    /\ UNCHANGED <<record, hashOrder, again, shuffled, shuffled_result>>
    /\ UNCHANGED notNorm

\* normalize_pricing_record applied to the record it returned
Renormalize ==
    /\ pc = "normalized"
    /\ result.status = "ok"
    /\ again' = normalize_pricing_record(result.value, hashOrder)
    /\ pc' = "renormalized"
    /\ UNCHANGED <<record, hashOrder, fixed_tiers, result, shuffled, shuffled_result>>
    /\ UNCHANGED notNorm

Next == Normalize \/ Renormalize

Spec == Init /\ [][Next]_vars

\* ------------------------------------------------------------------------
\* Pipeline specification: run_pipeline over a CSV, run again and again
\* while the days pass.  Each script is a subprocess of its own.
\* no interpreter is running between the steps
NoOrder == <<>>

InitPipeline ==
    /\ record = NoResult.value
    /\ hashOrder = NoOrder
    /\ fixed_tiers = NoTiers
    /\ result = NoResult
    /\ again = NoResult
    /\ shuffled = NoResult.value
    /\ shuffled_result = NoResult
    /\ ProvidersIdle
    /\ ParserIdle
    /\ ValidatorIdle
    /\ pc = "idle"
    /\ csv \in CsvInputs
    /\ today = 0
    /\ providers_raw = MissingFile
    /\ pricing_raw = MissingFile
    /\ providers_json = MissingFile
    /\ pricing_json = MissingFile
    /\ last_input = NoFiles
    /\ loaded = NoFiles
    /\ skip_validation = FALSE
    /\ step = "idle"
    /\ outcome = "none"
    /\ m_run = NoRun

\* run_pipeline is called: the step list is built
StartPipeline ==
    /\ step \in {"idle", "done"}
    /\ \E sv \in BOOLEAN :
          /\ skip_validation' = sv
          /\ m_run' = [steps |-> StepList(sv), verified |-> "not run", exit |-> NoExit]
    /\ step' = "Parse CSV"
    /\ outcome' = "running"
    /\ UNCHANGED <<hashOrder, csv, today, providers_raw, pricing_raw, providers_json,
                   pricing_json, last_input, loaded>>
    /\ UNCHANGED notPipe

\* step "Parse CSV": parse_csv.main writes the two raw files, or exits
\* with an error when the CSV cannot be read
RunParseCsv ==
    /\ step = "Parse CSV"
    /\ IF csv.exists
       THEN /\ providers_raw' = ListFile(parse_csv_file(csv.rows).providers)
            /\ pricing_raw' = ListFile(parse_csv_file(csv.rows).pricing)
       ELSE UNCHANGED <<providers_raw, pricing_raw>>
    /\ LET returncode == IF csv.exists THEN 0 ELSE 1
       IN  IF PipelineStep_run(returncode)
           THEN /\ step' = "Normalize Data"
                /\ outcome' = outcome
                /\ m_run' = StepRan(m_run, 1, returncode)
           ELSE /\ step' = "done"
                /\ outcome' = "failure"
                /\ m_run' = Exited(StepRan(m_run, 1, returncode), FALSE)
    /\ UNCHANGED <<hashOrder, csv, today, providers_json, pricing_json, last_input, loaded,
                   skip_validation>>
    /\ UNCHANGED notPipe

\* the files normalize.main loads and the files validate_output.main loads:
\* both scripts set input_dir to data/raw
NormalizeInput == [providers |-> providers_raw, pricing |-> pricing_raw]
ValidateInput == [providers |-> providers_raw, pricing |-> pricing_raw]

\* step "Normalize Data": normalize.main in an interpreter of its own, whose
\* hash seed (o) is drawn when it starts and gone when it exits
RunNormalize ==
    /\ step = "Normalize Data"
    /\ \E o \in HashOrders(UNION {SetsBuilt(pricing_raw.items[i]) :
                                       i \in 1..Len(pricing_raw.items)}) :
          LET r == normalize_main(NormalizeInput.providers, NormalizeInput.pricing, today, o)
              returncode == IF r.status = "ok" THEN 0 ELSE 1
          IN  /\ IF r.status = "ok"
                 THEN /\ providers_json' = r.value.providers
                      /\ pricing_json' = r.value.pricing
                      /\ last_input' = NormalizeInput
                 ELSE UNCHANGED <<providers_json, pricing_json, last_input>>
              /\ IF PipelineStep_run(returncode)
                 THEN /\ step' = IF skip_validation THEN "Verify" ELSE "Validate Output"
                      /\ outcome' = outcome
                      /\ m_run' = StepRan(m_run, 2, returncode)
                 ELSE /\ step' = "done"
                      /\ outcome' = "failure"
                      /\ m_run' = Exited(StepRan(m_run, 2, returncode), FALSE)
    /\ UNCHANGED <<hashOrder, csv, today, providers_raw, pricing_raw, loaded, skip_validation>>
    /\ UNCHANGED notPipe

\* step "Validate Output": validate_output.main
RunValidate ==
    /\ step = "Validate Output"
    /\ loaded' = ValidateInput
    /\ LET returncode == validate_main_exit(ValidateInput.providers, ValidateInput.pricing)
       IN  IF PipelineStep_run(returncode)
           THEN /\ step' = "Verify"
                /\ outcome' = outcome
                /\ m_run' = StepRan(m_run, 3, returncode)
           ELSE /\ step' = "done"
                /\ outcome' = "failure"
                /\ m_run' = Exited(StepRan(m_run, 3, returncode), FALSE)
    /\ UNCHANGED <<hashOrder, csv, today, providers_raw, pricing_raw, providers_json,
                   pricing_json, last_input, skip_validation>>
    /\ UNCHANGED notPipe

\* copy_data_to_frontend: both documents must exist in the frontend
VerifyFrontend ==
    /\ step = "Verify"
    /\ LET verified == copy_data_to_frontend(providers_json, pricing_json)
       IN  /\ outcome' = IF verified THEN "success" ELSE "failure"
           /\ m_run' = Exited([m_run EXCEPT !.verified = IF verified THEN "passed" ELSE "failed"],
                              verified)
    /\ step' = "done"
    /\ UNCHANGED <<hashOrder, csv, today, providers_raw, pricing_raw, providers_json,
                   pricing_json, last_input, loaded, skip_validation>>
    /\ UNCHANGED notPipe

\* the date changes
Midnight ==
    /\ today < MaxDay
    /\ today' = today + 1
    /\ UNCHANGED <<hashOrder, csv, providers_raw, pricing_raw, providers_json, pricing_json,
                   last_input, loaded, skip_validation, step, outcome, m_run>>
    /\ UNCHANGED notPipe

NextPipeline ==
    \/ StartPipeline
    \/ RunParseCsv
    \/ RunNormalize
    \/ RunValidate
    \/ VerifyFrontend
    \/ Midnight

SpecPipeline == InitPipeline /\ [][NextPipeline]_vars

\* ------------------------------------------------------------------------
\* Tier-order specification: one interpreter process, a record and the same
\* record with its tiers in another order, each given to
\* normalize_pricing_record.
OrderPool ==
    { Tier("per_gb", Num(U(10)), Num(U(45)), Num(U(5))),
      Tier("per_gb", Num(U(1)), Num(75000), Num(75000)),
      Tier("per_gb", Absent, Absent, Null),
      [Tier("per_ip", Num(U(3)), Num(U(20)), Num(U(1))) EXCEPT !.price_per_ip = Num(U(2))],
      Tier("per_thread", Absent, Absent, Absent),
      Tier(NoModel, Absent, Num(U(45)), Absent) }

OrderRecords ==
    {RawRecord([k |-> "list", v |-> ts], TRUE) :
        ts \in UNION {[1..n -> OrderPool] : n \in 0..MaxTiers}}

Shuffles(rec) == {[rec EXCEPT !.tiers.v = ts] : ts \in Arrangements(rec.tiers.v)}

InitOrder ==
    /\ record \in OrderRecords
    /\ shuffled \in Shuffles(record)
    /\ hashOrder \in HashOrders(SetsBuilt(record) \cup SetsBuilt(shuffled))
    /\ fixed_tiers = NoTiers
    /\ result = NoResult
    /\ again = NoResult
    /\ shuffled_result = NoResult
    /\ pc = "start"
    /\ PipelineIdle
    /\ ProvidersIdle
    /\ ParserIdle
    /\ ValidatorIdle

\* normalize_pricing_record(shuffled), in the process that normalized record
NormalizeShuffled ==
    /\ pc = "normalized"
    /\ shuffled_result' = normalize_pricing_record(shuffled, hashOrder)
    /\ pc' = "shuffled"
    /\ UNCHANGED <<record, hashOrder, fixed_tiers, result, again, shuffled>>
    /\ UNCHANGED notNorm

NextOrder == Normalize \/ NormalizeShuffled

SpecOrder == InitOrder /\ [][NextOrder]_vars

\* ------------------------------------------------------------------------
\* Provider-level specification: the parser's result for a CSV, and
\* normalize.main taken step by step on it: normalize the records, add the
\* provider metadata, sort the providers.
MaxRecords == 3

\* Price Offers cells: blank; text that parses to nothing; "$45/10 GB:
\* $5/GB"; "$7.5 per GB"; "$1 per GB"
ProviderOffers ==
    { [has_text |-> FALSE, tiers |-> <<>>],
      [has_text |-> TRUE, tiers |-> <<>>],
      [has_text |-> TRUE, tiers |-> <<Tier("per_gb", Num(U(10)), Num(U(45)), Num(U(5)))>>],
      [has_text |-> TRUE, tiers |-> <<Tier("per_gb", Num(U(1)), Num(75000), Num(75000))>>],
      [has_text |-> TRUE, tiers |-> <<Tier("per_gb", Num(U(1)), Num(U(1)), Num(U(1)))>>] }

ProviderRows == {Row(n, o.has_text, o.tiers) : n \in {"a", "b", "c"}, o \in ProviderOffers}

recVars == <<record, hashOrder, fixed_tiers, result, again, shuffled, shuffled_result>>

InitProviders ==
    /\ csv \in {[exists |-> TRUE, rows |-> r] :
                    r \in UNION {[1..n -> ProviderRows] : n \in 1..MaxRecords}}
    /\ m_providers = <<>>
    /\ m_pricing_records = <<>>
    /\ m_normalized_pricing = <<>>
    /\ m_sorted_providers = <<>>
    /\ pc = "csv"
    /\ record = NoResult.value
    /\ hashOrder = NoOrder
    /\ fixed_tiers = NoTiers
    /\ result = NoResult
    /\ again = NoResult
    /\ shuffled = NoResult.value
    /\ shuffled_result = NoResult
    /\ today = 0
    /\ providers_raw = MissingFile
    /\ pricing_raw = MissingFile
    /\ providers_json = MissingFile
    /\ pricing_json = MissingFile
    /\ last_input = NoFiles
    /\ loaded = NoFiles
    /\ skip_validation = FALSE
    /\ step = "idle"
    /\ outcome = "none"
    /\ m_run = NoRun
    /\ ParserIdle
    /\ ValidatorIdle

\* parse_csv_file, whose two lists normalize.main loads
ParseCsvFile ==
    /\ pc = "csv"
    /\ m_providers' = parse_csv_file(csv.rows).providers
    /\ m_pricing_records' = parse_csv_file(csv.rows).pricing
    /\ pc' = "loaded"
    /\ UNCHANGED <<m_normalized_pricing, m_sorted_providers>>
    /\ UNCHANGED <<recVars, pipeVars, parseVars, checkVars>>

\* normalized_pricing = [normalize_pricing_record(r) for r in pricing_records]
NormalizeRecords ==
    /\ pc = "loaded"
    /\ \E o \in HashOrders(UNION {SetsBuilt(m_pricing_records[i]) : i \in 1..Len(m_pricing_records)}) :
          LET outs == [i \in 1..Len(m_pricing_records) |->
                          normalize_pricing_record(m_pricing_records[i], o)]
          IN  IF \E i \in 1..Len(outs) : outs[i].status = "raised"
              THEN pc' = "raised" /\ UNCHANGED m_normalized_pricing
              ELSE /\ m_normalized_pricing' = [i \in 1..Len(outs) |-> outs[i].value]
                   /\ pc' = "records normalized"
    /\ UNCHANGED <<m_providers, m_pricing_records, m_sorted_providers>>
    /\ UNCHANGED <<recVars, pipeVars, parseVars, checkVars>>

\* providers_with_metadata = add_provider_metadata(providers, normalized_pricing)
AddProviderMetadata ==
    /\ pc = "records normalized"
    /\ m_providers' = add_provider_metadata(m_providers, m_normalized_pricing)
    /\ pc' = "metadata"
    /\ UNCHANGED <<m_pricing_records, m_normalized_pricing, m_sorted_providers>>
    /\ UNCHANGED <<recVars, pipeVars, parseVars, checkVars>>

\* providers_with_metadata.sort(key=...)
SortByCheapest ==
    /\ pc = "metadata"
    /\ m_sorted_providers' = SortProviders(m_providers)
    /\ pc' = "sorted"
    /\ UNCHANGED <<m_providers, m_pricing_records, m_normalized_pricing>>
    /\ UNCHANGED <<recVars, pipeVars, parseVars, checkVars>>

NextProviders ==
    \/ ParseCsvFile
    \/ NormalizeRecords
    \/ AddProviderMetadata
    \/ SortByCheapest

SpecProviders == InitProviders /\ [][NextProviders]_vars

\* ------------------------------------------------------------------------
\* Line-level specification: one line of a price cell, and parse_tier_line
\* applied to it.
\*
\* The lines are a shape, with a head before it and a tail behind it.  The
\* shapes are the example of each rule's comment in the source and
\* variations of it (other spellings, a zero, a number that does not
\* divide evenly), headers, and text that is no offer.
Shapes ==
    { <<"1", "0", " ", "GB", "$", "5", "/", "GB", "$", "5", "0">>,    \* 10 GB$5/GB$50
      <<"1", "0", " ", "GB", "$", "5", "$", "5", "0">>,    \* 10 GB$5$50
      <<"1", "0", " ", "GB", ":", " ", "$", "5", "/", "GB">>,    \* 10 GB: $5/GB
      <<"1", "0", " ", "gb", ":", " ", "$", "2", ".", "5", "/", "gb">>,    \* 10 gb: $2.5/gb
      <<"1", "0", " ", "GB", ":", " ", "$", "4", "5", "/", "mo">>,    \* 10 GB: $45/mo
      <<"1", "0", " ", "GB", ":", " ", "$", "4", "5", "/", "month">>,    \* 10 GB: $45/month
      <<"1", " ", "GB", " ", "-", " ", "1", "0", " ", "GB", ":", " ", "$", "5", "/", "GB">>,    \* 1 GB - 10 GB: $5/GB
      <<"1", "-", "1", "0", " ", "GB", ":", " ", "$", "5", "/", "GB">>,    \* 1-10 GB: $5/GB
      <<"1", "0", " ", "IPs", "$", "2", ".", "5", "/", "IP", "$", "2", "5">>,    \* 10 IPs$2.5/IP$25
      <<"1", "0", " ", "IPs", "$", "2", "$", "2", "0">>,    \* 10 IPs$2$20
      <<"$", "5", "0", "/", "2", "5", " ", "IPs">>,    \* $50/25 IPs
      <<"$", "1", "0", "/", "0", " ", "IPs">>,    \* $10/0 IPs
      <<"7", " ", "Days", "$", "5", "/", "IP">>,    \* 7 Days$5/IP
      <<"1", " ", "Day", " ", "Trial", ":", " ", "$", "2", "/", "IP">>,    \* 1 Day Trial: $2/IP
      <<"7", " ", "Days", " ", "5", "/", "IP">>,    \* 7 Days 5/IP
      <<"7", " ", "Days", " ", "2", ".", "5", "/", "IP">>,    \* 7 Days 2.5/IP
      <<"3", "0", " ", "Days", ",", " ", "2", "/", "IP">>,    \* 30 Days, 2/IP
      <<"7", " ", "days", " ", "2", "5", "/", "IP">>,    \* 7 days 25/IP
      <<"1", " ", "Month", ":", " ", "$", "2", "/", "IP", "/", "Mo">>,    \* 1 Month: $2/IP/Mo
      <<"3", " ", "Months", ":", " ", "$", "5", "/", "IP">>,    \* 3 Months: $5/IP
      <<"1", "0", " ", "GB", ":", " ", "$", "5", "/", "IP">>,    \* 10 GB: $5/IP
      <<"1", "0", " ", "GB", "+", ":", " ", "$", "5", "/", "IP">>,    \* 10 GB+: $5/IP
      <<"From", " ", "1", " ", "TB", "+", ":", " ", "$", "5", "/", "IP">>,    \* From 1 TB+: $5/IP
      <<"From", " ", "2", ".", "5", " ", "TB", ":", " ", "$", "3", "/", "IP">>,    \* From 2.5 TB: $3/IP
      <<"$", "5", "0", "/", "mo", " ", "(", "2", "5", " ", "IPs", ")", ":", " ", "$", "2", "/", "IP">>,    \* $50/mo (25 IPs): $2/IP
      <<"5", " ", "Hours", "$", "2", "/", "IP">>,    \* 5 Hours$2/IP
      <<"$", "4", "5", "/", "1", "0", " ", "GB", ":", " ", "$", "5", "/", "GB">>,    \* $45/10 GB: $5/GB
      <<"$", "4", "5", "/", "mo", ":", " ", "$", "5", "/", "GB">>,    \* $45/mo: $5/GB
      <<"$", "4", "5", ":", " ", "$", "5", "/", "GB">>,    \* $45: $5/GB
      <<"$", "7", ".", "5", " ", "per", " ", "GB">>,    \* $7.5 per GB
      <<"Per", " ", "Month", ":", " ", "$", "2", "/", "IP">>,    \* Per Month: $2/IP
      <<"1", "-", "1", "0", " ", "IPs", ":", " ", "$", "2", "/", "IP">>,    \* 1-10 IPs: $2/IP
      <<"$", "5", "0", "/", "1", "0", " ", "Ports", ":", " ", "$", "5", "/", "Port">>,    \* $50/10 Ports: $5/Port
      <<"$", "5", "0", "/", "mo", ":", " ", "$", "5", "/", "Port">>,    \* $50/mo: $5/Port
      <<"$", "5", "0", "/", "mo", ":", " ", "$", "3", "/", "Port">>,    \* $50/mo: $3/Port
      <<"Pay as you go", ":", " ", "$", "5", "/", "GB">>,    \* Pay as you go: $5/GB
      <<"Monthly", " ", "Plan", ":", " ", "$", "1", "0", "0", "/", "5", "0", " ", "GB">>,    \* Monthly Plan: $100/50 GB
      <<"$", "1", "0", "0", "/", "mo", " ", "(", "5", "0", " ", "GB", ")">>,    \* $100/mo (50 GB)
      <<"$", "4", "5", "/", "1", "0", " ", "GB">>,    \* $45/10 GB
      <<"$", "1", ",", "0", "0", "0", "/", "mo", " ", "(", "1", "0", "0", " ", "GB", ")">>,    \* $1,000/mo (100 GB)
      <<"5", " ", "Threads", ":", " ", "$", "3">>,    \* 5 Threads: $3
      <<"1", ",", "0", "0", "0", " ", "Threads", ":", " ", "$", "5">>,    \* 1,000 Threads: $5
      <<"1", "0", " ", "threads", ":", " ", "$", "5">>,    \* 10 threads: $5
      <<"1", "0", " ", "Proxies", ":", " ", "$", "5">>,    \* 10 Proxies: $5
      <<"1", " ", "Proxy", ":", " ", "$", "2">>,    \* 1 Proxy: $2
      <<"1", ",", "0", "0", "0", " ", "Proxies", ":", " ", "$", "1">>,    \* 1,000 Proxies: $1
      <<"5", " ", "Hours", "$", "3">>,    \* 5 Hours$3
      <<"5", " ", "Hours", " ", "3">>,    \* 5 Hours 3
      <<"7", " ", "Days", ":", " ", "$", "1", "0">>,    \* 7 Days: $10
      <<"1", " ", "Day", " ", "Trial", ":", " ", "$", "2">>,    \* 1 Day Trial: $2
      <<"$", "5", "0", "/", "mo", ":", " ", "$", "2", "/", "IP">>,    \* $50/mo: $2/IP
      <<"$", "5", "0", "/", "Mo", ":", " ", "$", "2", "/", "IP">>,    \* $50/Mo: $2/IP
      <<"$", "5", "0", "/", "mo", ":", " ", "$", "3", "/", "IP">>,    \* $50/mo: $3/IP
      <<"1", "0", " ", "IPs", "/", "5", " ", "GB", "/", "$", "5", "0", ":", " ", "$", "1", "0", "/", "GB">>,    \* 10 IPs/5 GB/$50: $10/GB
      <<"1", "0", "0", " ", "GB", "+", ":", " ", "$", "3", "/", "GB">>,    \* 100 GB+: $3/GB
      <<"0", " ", "IPs", "$", "1", "/", "IP", "$", "0">>,    \* 0 IPs$1/IP$0
      <<"$", "0", "/", "mo", ":", " ", "$", "0", "/", "GB">>,    \* $0/mo: $0/GB
      <<"0", " ", "GB", ":", " ", "$", "5", "/", "mo">>,    \* 0 GB: $5/mo
      <<"0", " ", "Threads", ":", " ", "$", "5">>,    \* 0 Threads: $5
      <<"0", " ", "Proxies", ":", " ", "$", "5">>,    \* 0 Proxies: $5
      <<"$", "5", ":", " ", "$", "0", "/", "GB">>,    \* $5: $0/GB
      <<"$", "1", "0", "/", "mo", ":", " ", "$", "0", "/", "Port">>,    \* $10/mo: $0/Port
      <<"$", "1", "0", "/", "mo", ":", " ", "$", "0", "/", "IP">>,    \* $10/mo: $0/IP
      <<"$", "1", "0", "0", "/", "mo", " ", "(", "0", " ", "GB", ")">>,    \* $100/mo (0 GB)
      <<"3", " ", "GB", ":", " ", "$", "0", ".", "3", "3", "3", "/", "GB">>,    \* 3 GB: $0.333/GB
      <<"0", "-", "0", " ", "GB", ":", " ", "$", "5", "/", "GB">>,    \* 0-0 GB: $5/GB
      <<"Dedicated">>,    \* Dedicated
      <<"Pay", " ", "/", " ", "GB">>,    \* Pay / GB
      <<"Contact", " ", "sales">>,    \* Contact sales
      <<>>,    \* (0 blanks)
      <<"Monthly", " ", "Plan", " ", "(", "1", "0", " ", "GB", ")">>,    \* Monthly Plan (10 GB)
      <<"$", "5">>,    \* $5
      <<"1", "0", " ", "GB">> }    \* 10 GB

\* nothing, a blank, or a label before the shape
Heads ==
    { <<>>,    \* the empty line
      <<" ">>,    \* a blank
      <<"Plan", ":", " ">> }    \* Plan: 

\* nothing, a colon, a blank, or more text behind the shape
Tails ==
    { <<>>,    \* the empty line
      <<":">>,    \* :
      <<" ">>,    \* a blank
      <<" ", "(", "1", "0", "0", " ", "GB", ")">>,    \*  (100 GB)
      <<" ", "5", " ", "Threads", " ", "$", "3">>,    \*  5 Threads $3
      <<",", " ", "2", "/", "IP", ":">> }    \* , 2/IP:

Lines == {h \o s \o t : h \in Heads, s \in Shapes, t \in Tails}

\* the record-level variables while no record is being normalized
RecordIdle ==
    /\ record = NoResult.value
    /\ hashOrder = NoOrder
    /\ fixed_tiers = NoTiers
    /\ result = NoResult
    /\ again = NoResult
    /\ shuffled = NoResult.value
    /\ shuffled_result = NoResult

InitLine ==
    /\ m_line \in Lines
    /\ m_tier = <<>>
    /\ m_price_text = <<>>
    /\ m_tiers = <<>>
    /\ pc = "line"
    /\ RecordIdle
    /\ PipelineIdle
    /\ ProvidersIdle
    /\ ValidatorIdle

\* tier = parse_tier_line(line)
ParseTierLine ==
    /\ pc = "line"
    /\ m_tier' = parse_tier_line(m_line)
    /\ pc' = "parsed"
    /\ UNCHANGED <<m_line, m_price_text, m_tiers>>
    /\ UNCHANGED <<recVars, pipeVars, provVars, checkVars>>

NextLine == ParseTierLine

SpecLine == InitLine /\ [][NextLine]_vars

\* ------------------------------------------------------------------------
\* Offer-level specification: the text of a price cell, up to MaxLines
\* lines of it, and parse_price_offers applied to it.
MaxLines == 3

OfferLines ==
    { <<>>,    \* the empty line
      <<" ">>,    \* a blank
      <<"Dedicated", ":">>,    \* Dedicated:
      <<"Contact", " ", "sales">>,    \* Contact sales
      <<"1", "0", " ", "GB", ":", " ", "$", "5", "/", "GB">>,    \* 10 GB: $5/GB
      <<"$", "7", ".", "5", " ", "per", " ", "GB">>,    \* $7.5 per GB
      <<"1", "0", " ", "IPs", "$", "2", "/", "IP", "$", "2", "0">>,    \* 10 IPs$2/IP$20
      <<"5", " ", "Threads", ":", " ", "$", "5">>,    \* 5 Threads: $5
      <<"$", "1", "0", "/", "0", " ", "IPs">> }    \* $10/0 IPs
Texts == UNION {[1..n -> OfferLines] : n \in 1..MaxLines}

InitOffers ==
    /\ m_price_text \in Texts
    /\ m_tiers = <<>>
    /\ m_line = <<>>
    /\ m_tier = <<>>
    /\ pc = "text"
    /\ RecordIdle
    /\ PipelineIdle
    /\ ProvidersIdle
    /\ ValidatorIdle

\* tiers = parse_price_offers(price_text)
ParsePriceOffers ==
    /\ pc = "text"
    /\ m_tiers' = parse_price_offers(m_price_text)
    /\ pc' = "offers parsed"
    /\ UNCHANGED <<m_line, m_tier, m_price_text>>
    /\ UNCHANGED <<recVars, pipeVars, provVars, checkVars>>

NextOffers == ParsePriceOffers

SpecOffers == InitOffers /\ [][NextOffers]_vars

\* ------------------------------------------------------------------------
\* Properties of the record-level specification

\* The tier sequence given to, and returned by, normalize_pricing_record
InTiers == IF record.tiers.k = "list" THEN record.tiers.v ELSE <<>>
OutTiers == IF result.value.tiers.k = "list" THEN result.value.tiers.v ELSE <<>>
Normalized == pc # "start" /\ result.status = "ok"
Fixed == pc # "start" /\ fixed_tiers.status = "ok"

PricedPerGb(t) == t.pricing_model = "per_gb" /\ IsNum(t.price_per_gb)

\* C1: a normalized record is comparable if and only if some tier of its
\* tier sequence is tagged per_gb and carries a numeric price_per_gb.
C1_ComparableIffPricedPerGbTier ==
    Normalized =>
        ((result.value.comparable = Bool(TRUE))
            <=> \E i \in 1..Len(OutTiers) : PricedPerGb(OutTiers[i]))

\* C2: in a comparable normalized record min_price_per_gb and
\* max_price_per_gb are both numbers and min <= max.
C2_ComparableHasOrderedExtremes ==
    (Normalized /\ result.value.comparable = Bool(TRUE)) =>
        /\ IsNum(result.value.min_price_per_gb)
        /\ IsNum(result.value.max_price_per_gb)
        /\ result.value.min_price_per_gb.v <= result.value.max_price_per_gb.v

\* The most frequent tag, the earliest first occurrence winning a tie
FirstSeenMostFrequent(models) ==
    LET best == {i \in 1..Len(models) :
                    \A j \in 1..Len(models) : Count(models, models[i]) >= Count(models, models[j])}
    IN  models[CHOOSE i \in best : \A j \in best : i <= j]

\* C3: with no per_gb tier and a non-empty tier sequence, pricing_model is
\* the most frequent tag, and among equally frequent tags the one that
\* occurs first in the tier sequence, whatever the run.
C3_ModelIsFirstSeenMostFrequent ==
    (Normalized /\ Len(OutTiers) > 0
        /\ \A i \in 1..Len(OutTiers) : OutTiers[i].pricing_model # "per_gb") =>
        result.value.pricing_model = FirstSeenMostFrequent(ModelsOf(OutTiers))

\* A per_gb tier that carries a quantity above zero and a total
Repairable(t) ==
    t.pricing_model = "per_gb" /\ IsNum(t.gb) /\ t.gb.v > 0 /\ IsNum(t.total)

\* p is total / gb rounded to four decimal places: within half a unit of
\* the last place of the exact quotient
Nearest4(p, total, gb) ==
    LET f == p - (total \div gb) * Scale
        r == total % gb
    IN  2 * (f * gb - r * Scale) <= gb /\ 2 * (r * Scale - f * gb) <= gb

\* C6: validate_and_fix_tiers gives every per_gb tier with gb > 0 and a
\* total the price_per_gb total / gb rounded to four decimal places, whatever
\* price the tier stated; gb = 10, total = 45 gives 4.5.
C6_RepairRecomputesPricePerGb ==
    Fixed =>
        \A i \in 1..Len(InTiers) :
            Repairable(InTiers[i]) =>
                /\ IsNum(fixed_tiers.value[i].price_per_gb)
                /\ Nearest4(fixed_tiers.value[i].price_per_gb.v,
                            InTiers[i].total.v, InTiers[i].gb.v)
                /\ (InTiers[i].gb = Num(U(10)) /\ InTiers[i].total = Num(U(45)))
                       => fixed_tiers.value[i].price_per_gb = Num(45000)

\* C6 witness: one call overwrote a stated price of 5 by 4.5 and derived a
\* price for a tier that stated none.
C6_Witness ==
    /\ Fixed
    /\ \E i \in 1..Len(InTiers) :
          /\ Repairable(InTiers[i])
          /\ InTiers[i].price_per_gb = Num(U(5))
          /\ fixed_tiers.value[i].price_per_gb = Num(45000)
    /\ \E j \in 1..Len(InTiers) :
          /\ Repairable(InTiers[j])
          /\ ~Has(InTiers[j].price_per_gb)
          /\ fixed_tiers.value[j].price_per_gb = Num(66667)

\* C7: validate_and_fix_tiers returns as many tiers as it was given, in the
\* same order; a tier that is not repaired is returned as it was, and a
\* repaired tier differs from its input in price_per_gb only.
C7_RepairFrame ==
    Fixed =>
        /\ Len(fixed_tiers.value) = Len(InTiers)
        /\ \A i \in 1..Len(InTiers) :
              IF Repairable(InTiers[i])
              THEN [fixed_tiers.value[i] EXCEPT !.price_per_gb = InTiers[i].price_per_gb]
                       = InTiers[i]
              ELSE fixed_tiers.value[i] = InTiers[i]

\* C7 witness: a call that repaired one tier and passed on a zero-quantity
\* per_gb tier and a per_ip tier that both carry gb and total.
C7_Witness ==
    /\ Fixed
    /\ \E i \in 1..Len(InTiers) :
          Repairable(InTiers[i]) /\ fixed_tiers.value[i] # InTiers[i]
    /\ \E i \in 1..Len(InTiers) :
          /\ InTiers[i].pricing_model = "per_gb"
          /\ InTiers[i].gb = Num(0) /\ IsNum(InTiers[i].total)
    /\ \E i \in 1..Len(InTiers) :
          /\ InTiers[i].pricing_model = "per_ip"
          /\ IsNum(InTiers[i].gb) /\ IsNum(InTiers[i].total)

\* C8: validate_and_fix_tiers and normalize_pricing_record return a result
\* for every record, null gb or total and absent, null or empty tiers
\* included.
C8_NormalizationNeverRaises ==
    pc # "start" => (fixed_tiers.status = "ok" /\ result.status = "ok")

ComparablePrices == {OutTiers[i].price_per_gb.v : i \in {j \in 1..Len(OutTiers) : PricedPerGb(OutTiers[j])}}

\* C10: min_price_per_gb and max_price_per_gb are the least and the greatest
\* price_per_gb over the priced per_gb tiers of the normalized tier sequence,
\* and null when there is none; no other tier and no other field counts.
C10_ExtremesOverPricedPerGbTiers ==
    Normalized =>
        IF ComparablePrices = {}
        THEN result.value.min_price_per_gb = Null /\ result.value.max_price_per_gb = Null
        ELSE /\ IsNum(result.value.min_price_per_gb)
             /\ IsNum(result.value.max_price_per_gb)
             /\ result.value.min_price_per_gb.v \in ComparablePrices
             /\ result.value.max_price_per_gb.v \in ComparablePrices
             /\ \A x \in ComparablePrices :
                   result.value.min_price_per_gb.v <= x /\ x <= result.value.max_price_per_gb.v

\* C10 witness: a record with two different per_gb prices, one of them of a
\* ranged tier whose min_gb is below it, and a per_ip tier carrying a lower
\* price_per_gb.
C10_Witness ==
    /\ Normalized
    /\ IsNum(result.value.min_price_per_gb)
    /\ result.value.min_price_per_gb.v < result.value.max_price_per_gb.v
    /\ \E i \in 1..Len(OutTiers) :
          /\ PricedPerGb(OutTiers[i]) /\ IsNum(OutTiers[i].min_gb)
          /\ OutTiers[i].min_gb.v < result.value.min_price_per_gb.v
    /\ \E i \in 1..Len(OutTiers) :
          /\ OutTiers[i].pricing_model = "per_ip" /\ IsNum(OutTiers[i].price_per_gb)
          /\ OutTiers[i].price_per_gb.v < result.value.min_price_per_gb.v

\* ------------------------------------------------------------------------
\* Properties of the pipeline specification

\* C4: a run of normalize.main on the raw files that the documents on disk
\* were made from writes the same providers.json and pricing.json again,
\* whenever it runs.
C4_RerunWritesSameDocuments ==
    [][(/\ step = "Normalize Data"
        /\ step' \in {"Validate Output", "Verify"}
        /\ providers_json.exists /\ pricing_json.exists
        /\ last_input = NormalizeInput)
       => (providers_json' = providers_json /\ pricing_json' = pricing_json)]_vars

\* C5: the documents the validation step checks are the documents the
\* normalization step wrote.
C5_ValidatorChecksNormalizedDocuments ==
    (step = "Verify" /\ ~skip_validation) =>
        (loaded.providers = providers_json /\ loaded.pricing = pricing_json)


\* ------------------------------------------------------------------------
\* Properties of the tier-order specification

BothNormalized == pc = "shuffled" /\ result.status = "ok" /\ shuffled_result.status = "ok"

\* The aggregates that are computed without building a set of tags
SameExtremesAndCounts ==
    /\ shuffled_result.value.min_price_per_gb = result.value.min_price_per_gb
    /\ shuffled_result.value.max_price_per_gb = result.value.max_price_per_gb
    /\ shuffled_result.value.comparable = result.value.comparable
    /\ shuffled_result.value.tier_count = result.value.tier_count

\* No per_gb tier, and two different tags share the highest count
TiedModels(tiers) ==
    LET models == ModelsOf(tiers)
    IN  /\ \A i \in 1..Len(tiers) : tiers[i].pricing_model # "per_gb"
        /\ \E i, j \in 1..Len(models) :
              /\ models[i] # models[j]
              /\ Count(models, models[i]) = Count(models, models[j])
              /\ \A k \in 1..Len(models) : Count(models, models[i]) >= Count(models, models[k])

\* C11 (as stated): two tier sequences that are permutations of each other
\* normalize to the same min_price_per_gb, max_price_per_gb, comparable,
\* tier_count and pricing_model.
C11_TierOrderIrrelevant ==
    pc = "shuffled" =>
        /\ shuffled_result.status = result.status
        /\ result.status = "ok" =>
              /\ SameExtremesAndCounts
              /\ shuffled_result.value.pricing_model = result.value.pricing_model

\* C11 (amended): two tier sequences that are permutations of each other
\* normalize to the same min_price_per_gb, max_price_per_gb, comparable and
\* tier_count, and to the same pricing_model unless, with no per_gb tier,
\* two tags tie for the highest count.
C11_AggregatesIgnoreTierOrder ==
    pc = "shuffled" =>
        /\ shuffled_result.status = result.status
        /\ result.status = "ok" =>
              /\ SameExtremesAndCounts
              /\ ~TiedModels(OutTiers) =>
                    shuffled_result.value.pricing_model = result.value.pricing_model

\* C11 witness: both orders were normalized, the orders differ, and the
\* record has two different per_gb prices whose order of appearance differs
\* between the two.
C11_Witness ==
    /\ BothNormalized
    /\ shuffled.tiers # record.tiers
    /\ IsNum(result.value.min_price_per_gb)
    /\ result.value.min_price_per_gb.v < result.value.max_price_per_gb.v
    /\ PerGbPrices(shuffled_result.value.tiers.v) # PerGbPrices(OutTiers)


\* ------------------------------------------------------------------------
\* Properties of the provider-level specification

WithMetadata == pc \in {"metadata", "sorted"}

\* The normalized records of a provider, and their numeric minimum prices
OwnRecords(id) ==
    {i \in 1..Len(m_normalized_pricing) : m_normalized_pricing[i].provider_id = id}
OwnMinPrices(id) ==
    {m_normalized_pricing[i].min_price_per_gb.v :
        i \in {j \in OwnRecords(id) : IsNum(m_normalized_pricing[j].min_price_per_gb)}}

\* C12: after add_provider_metadata every provider's cheapest_price_per_gb
\* is the least non-null min_price_per_gb over the records carrying its id,
\* null when there is none, and pricing_count is the number of those records.
C12_CheapestOverOwnRecords ==
    WithMetadata =>
        \A k \in 1..Len(m_providers) :
            LET p == m_providers[k]
            IN  /\ p.pricing_count = Num(Cardinality(OwnRecords(p.id)))
                /\ IF OwnMinPrices(p.id) = {}
                   THEN p.cheapest_price_per_gb = Null
                   ELSE /\ IsNum(p.cheapest_price_per_gb)
                        /\ p.cheapest_price_per_gb.v \in OwnMinPrices(p.id)
                        /\ \A x \in OwnMinPrices(p.id) : p.cheapest_price_per_gb.v <= x

\* C12 witness: a provider with two records of different minimum prices,
\* while a record of another provider is cheaper than both.
C12_Witness ==
    /\ pc = "metadata"
    /\ \E k, l \in 1..Len(m_providers) :
          /\ Cardinality(OwnMinPrices(m_providers[k].id)) = 2
          /\ m_providers[k].pricing_count = Num(2)
          /\ IsNum(m_providers[l].cheapest_price_per_gb)
          /\ m_providers[l].cheapest_price_per_gb.v < m_providers[k].cheapest_price_per_gb.v

\* C13: has_pricing_data is true exactly when a record of the provider has
\* has_pricing true; has_pricing is whether the row's offer text was
\* non-blank, and normalization leaves it as parsed; a provider whose text
\* yields no tier has has_pricing_data true and a null cheapest_price_per_gb.
C13_HasPricingDataFromOfferText ==
    WithMetadata =>
        /\ \A i \in 1..Len(csv.rows) :
              /\ m_pricing_records[i].has_pricing = csv.rows[i].has_text
              /\ m_normalized_pricing[i].has_pricing = m_pricing_records[i].has_pricing
        /\ \A k \in 1..Len(m_providers) :
              LET p == m_providers[k]
                  own == {i \in 1..Len(csv.rows) : csv.rows[i].name = p.id}
              IN  /\ p.has_pricing_data =
                        Bool(\E i \in OwnRecords(p.id) : m_normalized_pricing[i].has_pricing)
                  /\ (/\ \E i \in own : csv.rows[i].has_text
                      /\ \A i \in own : Len(csv.rows[i].tiers) = 0)
                        => (p.has_pricing_data = Bool(TRUE) /\ p.cheapest_price_per_gb = Null)

\* C13 witness: a provider whose only offer text yields no tier, next to a
\* provider with a blank offer and a provider with a priced tier.
C13_Witness ==
    /\ pc = "metadata"
    /\ \E k \in 1..Len(m_providers) :
          /\ m_providers[k].has_pricing_data = Bool(TRUE)
          /\ m_providers[k].cheapest_price_per_gb = Null
          /\ \A i \in OwnRecords(m_providers[k].id) : m_normalized_pricing[i].tier_count = Num(0)
    /\ \E k \in 1..Len(m_providers) : m_providers[k].has_pricing_data = Bool(FALSE)
    /\ \E k \in 1..Len(m_providers) : IsNum(m_providers[k].cheapest_price_per_gb)

\* s holds the elements of t, each as often as t does
SameElements(s, t) ==
    /\ Len(s) = Len(t)
    /\ \A x \in {s[i] : i \in 1..Len(s)} \cup {t[i] : i \in 1..Len(t)} :
          Cardinality({i \in 1..Len(s) : s[i] = x}) = Cardinality({i \in 1..Len(t) : t[i] = x})

\* C14: the provider sort returns the providers it was given, those with a
\* price before those with none, and those with a price in non-decreasing
\* order of it, for every mix of null and non-null prices.
C14_ProvidersSortedNullsLast ==
    pc = "sorted" =>
        /\ SameElements(m_sorted_providers, m_providers)
        /\ \A i, j \in 1..Len(m_sorted_providers) :
              (i < j /\ IsNum(m_sorted_providers[j].cheapest_price_per_gb)) =>
                  /\ IsNum(m_sorted_providers[i].cheapest_price_per_gb)
                  /\ m_sorted_providers[i].cheapest_price_per_gb.v
                        <= m_sorted_providers[j].cheapest_price_per_gb.v

\* C14 witness: providers priced [null, 4.5, 1.0] come out as [1.0, 4.5, null].
C14_Witness ==
    /\ pc = "sorted"
    /\ [k \in 1..Len(m_providers) |-> m_providers[k].cheapest_price_per_gb]
          = <<Null, Num(45000), Num(U(1))>>
    /\ [k \in 1..Len(m_sorted_providers) |-> m_sorted_providers[k].cheapest_price_per_gb]
          = <<Num(U(1)), Num(45000), Null>>

\* ------------------------------------------------------------------------
\* Properties of the line-level specification

\* the line as parse_tier_line sees it
TrimmedLine == Strip(m_line)

\* the places in the cascade of the rules that match the line
MatchingRules(results) == {k \in 1..Len(results) : results[k].ok}

\* the result is that of the earliest rule that matches, None if none does
EarliestRuleDecides ==
    LET results == Cascade(TrimmedLine)
        hits == MatchingRules(results)
    IN  IF hits = {} THEN m_tier = <<>> ELSE m_tier = results[MinOfSet(hits)].out

\* C15 as stated: for every line, parse_tier_line returns what the earliest
\* rule of the cascade that matches the line extracts, whatever later rules
\* would say.
C15_EarliestRuleWinsOnEveryLine ==
    pc = "parsed" => EarliestRuleDecides

\* C15, amended: for every line that is not blank and that the
\* section-header guard lets through, parse_tier_line returns what the
\* earliest rule of the cascade that matches the line extracts (None when
\* that rule returns None or when no rule matches), whatever later rules
\* would say.
C15_EarliestRuleWinsPastGuard ==
    (pc = "parsed" /\ TrimmedLine # <<>> /\ ~section_header(TrimmedLine)) => EarliestRuleDecides

\* a parsed line past the guard that two rules match with different tiers
C15_Witness ==
    /\ pc = "parsed"
    /\ TrimmedLine # <<>>
    /\ ~section_header(TrimmedLine)
    /\ LET results == Cascade(TrimmedLine)
           hits == MatchingRules(results)
       IN  /\ hits # {}
           /\ m_tier = results[MinOfSet(hits)].out
           /\ m_tier # <<>>
           /\ \E k \in hits : results[k].out # m_tier

\* the rules that search the whole line (match_monthly, match_thread and
\* match_proxy, by their place in the cascade); the other rules are
\* anchored at the start of the line
Fallbacks == {25, 26, 27}

\* C16: when a line matches a rule for a specific shape and also one of
\* the fallback searches (monthly plan, threads, proxies), the specific rule
\* decides the tier; a line of shape "$X/mo: $Y/IP" is tagged per_ip with
\* period_months 1 whatever text follows it.
C16_SpecificRuleBeforeFallback ==
    (pc = "parsed" /\ TrimmedLine # <<>> /\ ~section_header(TrimmedLine)) =>
        LET results == Cascade(TrimmedLine)
            hits == MatchingRules(results)
        IN  /\ (hits \cap Fallbacks # {} /\ hits \ Fallbacks # {})
                  => m_tier = results[MinOfSet(hits \ Fallbacks)].out
            /\ match_total_month_price_ip(TrimmedLine).ok =>
                  /\ Len(m_tier) = 1
                  /\ m_tier[1].pricing_model = "per_ip"
                  /\ m_tier[1].period_months = Num(1)

\* what the claim calls punctuation: every mark of the vocabulary but the
\* blank and the currency sign
Punctuation == Marks \ {" ", "$"}

\* a line of letters, digits, whitespace and punctuation that ends in ":"
HeaderShaped(line) ==
    /\ Len(line) > 0
    /\ line[Len(line)] = ":"
    /\ \A i \in 1..Len(line) : line[i] \in Digits \cup Words \cup Space \cup Punctuation

\* C17 as stated: a line of letters, digits, whitespace and punctuation
\* that ends in ":" yields no tier, whatever rule of the cascade would
\* match it.
C17_HeaderShapedLineYieldsNoTier ==
    (pc = "parsed" /\ HeaderShaped(TrimmedLine)) => m_tier = <<>>

\* C17, amended: a line of letters, digits, whitespace and the characters
\* / ( ) . _ - followed by a final ":" yields no tier, whatever rule of the
\* cascade would match it.
C17_GuardedLineYieldsNoTier ==
    (pc = "parsed" /\ section_header(TrimmedLine)) => m_tier = <<>>

\* a parsed line the guard rejects although a rule matches it with a tier
C17_Witness ==
    /\ pc = "parsed"
    /\ section_header(TrimmedLine)
    /\ \E k \in MatchingRules(Cascade(TrimmedLine)) : Cascade(TrimmedLine)[k].out # <<>>
    /\ m_tier = <<>>

\* ------------------------------------------------------------------------
\* Properties of the offer-level specification

\* the lines of the text that parse, by their place in the text
MatchingLines ==
    SelectSeq([i \in 1..Len(m_price_text) |-> i],
              LAMBDA i : parse_tier_line(m_price_text[i]) # <<>>)

\* C18: parse_price_offers returns the tiers of the lines that parse, one
\* for each such line and in the order of the lines; blank lines, headers
\* and free text add nothing and do not end the parse, and a line that
\* occurs twice gives its tier twice.
C18_TiersOfMatchingLinesInOrder ==
    pc = "offers parsed" =>
        /\ Len(m_tiers) = Len(MatchingLines)
        /\ \A k \in 1..Len(MatchingLines) :
              m_tiers[k] = parse_tier_line(m_price_text[MatchingLines[k]])[1]

\* a parsed text with a header between two copies of the same offer line
C18_Witness ==
    /\ pc = "offers parsed"
    /\ Len(m_price_text) = 3
    /\ m_price_text[1] = m_price_text[3]
    /\ parse_tier_line(m_price_text[1]) # <<>>
    /\ Strip(m_price_text[2]) # <<>>
    /\ parse_tier_line(m_price_text[2]) = <<>>
    /\ Len(m_tiers) = 2
    /\ m_tiers[1] = m_tiers[2]

\* ------------------------------------------------------------------------
\* Validator-level specification: a tier, a pricing record or a provider,
\* and its validator of validate_output.py applied to it.
MaxCheckedTiers == 2
MaxIndex == 1

\* what a validator leaves in `validated` when it returns
Returned(out) == IF out.status = "ok" THEN out.value ELSE <<>>

\* pricing_model values: the enum, a missing key, null, and a tag outside
\* the enum
CheckedModels == valid_models \cup {NoModel, NullModel, "per_port"}

\* the numbers a field is given: null, a negative, zero and a positive one
CheckedValues == {Null, Num(-1), Num(0), Num(U(2))}

\* the numeric keys of a tier, of a pricing record and of a provider
TierNumbers ==
    {"gb", "price_per_gb", "total", "price_per_ip", "ips", "min_gb", "max_gb", "min_ips",
     "max_ips", "min_tb", "proxies", "threads", "period_hours", "period_days", "period_months"}
RecordNumbers == {"tier_count", "min_price_per_gb", "max_price_per_gb"}
ProviderNumbers == {"pricing_count", "cheapest_price_per_gb"}

\* tiers as the parser writes them, with one key given another value
ParsedTiers ==
    { per_gb_tier(U(10), U(5), U(45)),
      per_ip_tier(Num(10), U(2), U(20)),
      [per_proxy_tier(Num(1), U(10)) EXCEPT !.period_days = Num(7)] }
CheckedTiers ==
    {[[t EXCEPT !.pricing_model = m] EXCEPT ![f] = v] :
        t \in ParsedTiers, m \in CheckedModels, f \in TierNumbers, v \in CheckedValues}

\* the tiers of the records: a valid one, one with a tag outside the enum,
\* and one with a negative number under a key validate_tier reads and
\* under one it does not
RecordTiers ==
    { per_gb_tier(U(10), U(5), U(45)),
      [per_proxy_tier(Num(1), U(10)) EXCEPT !.pricing_model = "per_port"],
      per_gb_tier(U(10), U(5), 0 - U(45)),
      [per_proxy_tier(Num(1), U(10)) EXCEPT !.period_days = Num(-1)] }
\* a record or a provider with one more key, "notes", that no validator reads
WithNotes(obj, x) == [f \in DOMAIN obj \cup {"notes"} |-> IF f = "notes" THEN x ELSE obj[f]]
CheckedNotes == {Absent, Null, Num(-1)}
CheckedLists ==
    {[k |-> "list", v |-> ts] : ts \in UNION {[1..n -> RecordTiers] : n \in 0..MaxCheckedTiers}}
    \cup {[k |-> "absent", v |-> <<>>], [k |-> "null", v |-> <<>>]}
CheckedRecords ==
    {WithNotes([[RawRecord(ts, TRUE) EXCEPT !.pricing_model = m] EXCEPT ![f] = v], x) :
        ts \in CheckedLists, m \in CheckedModels, f \in RecordNumbers,
        v \in CheckedValues \cup {Absent}, x \in CheckedNotes}
CheckedProviders ==
    {WithNotes([Provider("a") EXCEPT !.pricing_count = c, !.cheapest_price_per_gb = p], x) :
        c \in CheckedValues \cup {Absent}, p \in CheckedValues \cup {Absent},
        x \in CheckedNotes}

\* the documents: a list or an object of up to MaxDocRecords records, some
\* of them invalid, the object with and without each key of the metadata,
\* and values that are neither
MaxDocRecords == 2
DocProviders ==
    { WithNotes(Provider("a"), Absent),
      WithNotes([Provider("b") EXCEPT !.pricing_count = Num(1)], Num(-1)),
      WithNotes([Provider("c") EXCEPT !.pricing_count = Num(-1)], Absent) }
DocRecords ==
    { WithNotes(RawRecord([k |-> "absent", v |-> <<>>], FALSE), Absent),
      WithNotes(RawRecord([k |-> "list", v |-> <<per_gb_tier(U(10), U(5), U(45))>>], TRUE),
                Absent),
      WithNotes(RawRecord([k |-> "list", v |-> <<per_gb_tier(U(10), U(5), 0 - U(45))>>], TRUE),
                Absent) }
DocDates == {Absent, Null, Num(-1), Num(0), Num(1)}
DocCounts == {Absent, Null, Num(-1), Num(0), Num(2)}
Documents(pool) ==
    LET lists == UNION {[1..n -> pool] : n \in 0..MaxDocRecords}
    IN  {BareList(items) : items \in lists}
        \cup {Wrapping(items, d, c) : items \in lists, d \in DocDates, c \in DocCounts}
        \cup {Document("object", FALSE, <<>>, d, Absent) : d \in DocDates}
        \cup {Document("string", FALSE, <<>>, Absent, Absent),
              Document("null", FALSE, <<>>, Absent, Absent)}

\* the two files of data/raw: missing, not JSON, or a document whose
\* records are valid or not, with or without their id, and whose pricing
\* records name a provider of the other file or not
MaxFileRecords == 2
FileProviders ==
    { WithNotes(Provider("a"), Absent),
      WithNotes(Provider("b"), Absent),
      WithNotes([Provider("c") EXCEPT !.pricing_count = Num(-1)], Absent),
      WithNotes(Provider(NoId), Absent) }
FileRecords ==
    { WithNotes(RawRecord([k |-> "absent", v |-> <<>>], FALSE), Absent),
      WithNotes([RawRecord([k |-> "absent", v |-> <<>>], FALSE) EXCEPT !.provider_id = "z"],
                Absent),
      WithNotes(RawRecord([k |-> "list", v |-> <<per_gb_tier(U(10), U(5), 0 - U(45))>>], TRUE),
                Absent),
      WithNotes([RawRecord([k |-> "absent", v |-> <<>>], FALSE) EXCEPT !.provider_id = NoId],
                Absent) }
Files(pool) ==
    LET lists == UNION {[1..n -> pool] : n \in 0..MaxFileRecords}
        empty == BareList(<<>>)
    IN  {JsonFile(FALSE, FALSE, empty), JsonFile(TRUE, FALSE, empty)}
        \cup {JsonFile(TRUE, TRUE, BareList(items)) : items \in lists}
        \cup {JsonFile(TRUE, TRUE, Wrapping(items, d, Absent)) :
                 items \in {l \in lists : Len(l) = 1}, d \in {Absent, Null}}
        \cup {JsonFile(TRUE, TRUE, Document("string", FALSE, <<>>, Absent, Absent))}

Object(kind, value) == [kind |-> kind, value |-> value]

InitValidate ==
    /\ m_object \in {Object("tier", t) : t \in CheckedTiers}
                    \cup {Object("pricing", r) : r \in CheckedRecords}
                    \cup {Object("provider", p) : p \in CheckedProviders}
                    \cup {Object("providers_data", d) : d \in Documents(DocProviders)}
                    \cup {Object("pricing_data", d) : d \in Documents(DocRecords)}
                    \cup {Object("files", [providers |-> p, pricing |-> q]) :
                             p \in Files(FileProviders), q \in Files(FileRecords)}
    /\ m_index \in 0..MaxIndex
    /\ m_verdict = "none"
    /\ m_error = NoError
    /\ m_validated = <<>>
    /\ pc = "object"
    /\ RecordIdle
    /\ PipelineIdle
    /\ ProvidersIdle
    /\ ParserIdle

\* validate_tier(tier, index)
ValidateTier ==
    /\ pc = "object"
    /\ m_object.kind = "tier"
    /\ m_verdict' = validate_tier(m_object.value).status
    /\ m_error' = validate_tier_error(m_object.value, m_index)
    /\ m_validated' = Returned(validate_tier(m_object.value))
    /\ pc' = "validated"
    /\ UNCHANGED <<m_object, m_index, recVars, pipeVars, provVars, parseVars>>

\* validate_pricing_record(record, index)
ValidatePricingRecord ==
    /\ pc = "object"
    /\ m_object.kind = "pricing"
    /\ m_verdict' = validate_pricing_record(m_object.value).status
    /\ m_error' = validate_pricing_record_error(m_object.value, m_index)
    /\ m_validated' = Returned(validate_pricing_record(m_object.value))
    /\ pc' = "validated"
    /\ UNCHANGED <<m_object, m_index, recVars, pipeVars, provVars, parseVars>>

\* validate_provider(provider, index)
ValidateProvider ==
    /\ pc = "object"
    /\ m_object.kind = "provider"
    /\ m_verdict' = validate_provider(m_object.value).status
    /\ m_error' = validate_provider_error(m_object.value, m_index)
    /\ m_validated' = Returned(validate_provider(m_object.value))
    /\ pc' = "validated"
    /\ UNCHANGED <<m_object, m_index, recVars, pipeVars, provVars, parseVars>>

\* validate_providers_data(data)
ValidateProvidersData ==
    /\ pc = "object"
    /\ m_object.kind = "providers_data"
    /\ m_verdict' = validate_providers_data(m_object.value, today).status
    /\ m_error' = validate_providers_data_error(m_object.value, today)
    /\ m_validated' = Returned(validate_providers_data(m_object.value, today))
    /\ pc' = "validated"
    /\ UNCHANGED <<m_object, m_index, recVars, pipeVars, provVars, parseVars>>

\* validate_pricing_data(data)
ValidatePricingData ==
    /\ pc = "object"
    /\ m_object.kind = "pricing_data"
    /\ m_verdict' = validate_pricing_data(m_object.value, today).status
    /\ m_error' = validate_pricing_data_error(m_object.value, today)
    /\ m_validated' = Returned(validate_pricing_data(m_object.value, today))
    /\ pc' = "validated"
    /\ UNCHANGED <<m_object, m_index, recVars, pipeVars, provVars, parseVars>>

\* validate_output.main(), up to sys.exit
ValidateMain ==
    /\ pc = "object"
    /\ m_object.kind = "files"
    /\ LET report == validate_output_main(m_object.value.providers, m_object.value.pricing,
                                          today)
       IN  /\ m_verdict' = (IF report.exit = 0 THEN "exit 0" ELSE "exit 1")
           /\ m_validated' = report
    /\ m_error' = NoError
    /\ pc' = "validated"
    /\ UNCHANGED <<m_object, m_index, recVars, pipeVars, provVars, parseVars>>

NextValidate ==
    \/ ValidateMain
    \/ ValidateTier
    \/ ValidatePricingRecord
    \/ ValidateProvider
    \/ ValidateProvidersData
    \/ ValidatePricingData

SpecValidate == InitValidate /\ [][NextValidate]_vars

\* ------------------------------------------------------------------------
\* Properties of the validator-level specification

\* a pricing_model that is a value, and not one of the enum
OutsideEnum(model) == model \notin {NoModel, NullModel} \cup valid_models

\* C19: validate_pricing_record raises when the record's pricing_model, or
\* the pricing_model of one of its tiers, is a value outside the enum.
C19_PricingModelOutsideEnumRaises ==
    (/\ pc = "validated"
     /\ m_object.kind = "pricing"
     /\ \/ OutsideEnum(m_object.value.pricing_model)
        \/ \E i \in 1..Len(m_object.value.tiers.v) :
              OutsideEnum(m_object.value.tiers.v[i].pricing_model))
        => m_verdict = "raised"

Negative(x) == IsNum(x) /\ x.v < 0

\* the object holds a negative number under one of its numeric keys
HasNegativeNumber(obj) ==
    CASE obj.kind = "tier" -> \E f \in TierNumbers : Negative(obj.value[f])
      [] obj.kind = "pricing" ->
            \/ \E f \in RecordNumbers : Negative(obj.value[f])
            \/ \E i \in 1..Len(obj.value.tiers.v) :
                  \E f \in TierNumbers : Negative(obj.value.tiers.v[i][f])
      [] obj.kind = "provider" -> \E f \in ProviderNumbers : Negative(obj.value[f])
      [] OTHER -> FALSE

\* C20: the validation of a tier, a pricing record or a provider raises
\* when one of its numeric fields is negative, the range bounds, billing
\* periods and proxies/threads counts of a tier included.
C20_NegativeNumberRaises ==
    (pc = "validated" /\ HasNegativeNumber(m_object)) => m_verdict = "raised"


\* the counts of a tier that are positive integers when present
Counts == {"ips", "proxies", "threads"}

\* C21: validate_tier raises when ips, proxies or threads is present, not
\* null, and is not a positive integer.
C21_NonPositiveCountRaises ==
    (/\ pc = "validated"
     /\ m_object.kind = "tier"
     /\ \E f \in Counts : IsNum(m_object.value[f]) /\ m_object.value[f].v <= 0)
        => m_verdict = "raised"


\* the numeric checks agree with the verdict: an error is raised exactly
\* when the validator does not return
ErrorIffRaised ==
    (pc = "validated" /\ m_object.kind # "files")
        => ((m_error # NoError) <=> (m_verdict = "raised"))


\* the pricing record passes the checks of its own keys and one of its
\* tiers does not pass validate_tier
TierOfRecordViolates(rec) ==
    /\ \A i \in 1..Len(record_checks) : record_check_ok(rec, record_checks[i])
    /\ \E j \in 1..Len(rec.tiers.v) : validate_tier(rec.tiers.v[j]).status = "raised"

\* C22: when a field of tier j of pricing record i violates the contract,
\* the error raised carries the path pricing[i].tiers[j].<field> and the
\* offending value.
C22_TierErrorPathNamesRecordAndTier ==
    (/\ pc = "validated"
     /\ m_object.kind = "pricing"
     /\ TierOfRecordViolates(m_object.value))
        => \E j \in 1..Len(m_object.value.tiers.v) : \E f \in TierNumbers \cup {"pricing_model"} :
              /\ m_error.path = <<Seg("pricing", m_index), Seg("tiers", j - 1), Key(f)>>
              /\ m_error.value = FieldValue(m_object.value.tiers.v[j], f)
              /\ ~tier_check_ok(m_object.value.tiers.v[j], f)


\* the objects of a data file, as opposed to the file's top-level value
ObjectKinds == {"tier", "pricing", "provider"}

\* the keys each validator reads, among the keys the model carries
record_keys ==
    {"provider_id", "pricing_model", "comparable", "has_pricing", "tier_count",
     "min_price_per_gb", "max_price_per_gb", "tiers"}
provider_keys == {"id", "has_pricing_data", "pricing_count", "cheapest_price_per_gb"}
KnownKeys(kind) ==
    CASE kind = "tier" -> tier_keys
      [] kind = "pricing" -> record_keys
      [] kind = "provider" -> provider_keys

\* whether an object has a key, and whether the key holds null
AlwaysGiven == {"has_pricing"}
Present(obj, f) ==
    IF f \in AlwaysGiven THEN TRUE
    ELSE IF f \in {"id", "provider_id"} THEN obj[f] # NoId
    ELSE IF f = "pricing_model" THEN obj[f] # NoModel
    ELSE obj[f].k # "absent"
IsNull(obj, f) ==
    IF f \in AlwaysGiven \cup {"id", "provider_id"} THEN FALSE
    ELSE IF f = "pricing_model" THEN obj[f] = NullModel
    ELSE obj[f].k = "null"

\* the object without the keys its validator does not read
Blank(obj, f) ==
    IF f \in {"is_payg", "comparable", "has_pricing_data"} THEN AbsentB ELSE Absent
KnownOnly(obj) ==
    [obj EXCEPT !.value = [f \in DOMAIN obj.value |->
        IF f \in KnownKeys(obj.kind) THEN obj.value[f] ELSE Blank(obj.value, f)]]
Verdict(obj) ==
    CASE obj.kind = "tier" -> validate_tier(obj.value).status
      [] obj.kind = "pricing" -> validate_pricing_record(obj.value).status
      [] obj.kind = "provider" -> validate_provider(obj.value).status

\* the keys an accepted object keeps with exactly the value given: every
\* key the validator does not read, and every key it reads that holds
\* null, those named in `defaulted` excepted
PassesThrough(defaulted) ==
    /\ m_verdict = Verdict(KnownOnly(m_object))
    /\ m_verdict = "ok" =>
          \A f \in DOMAIN m_object.value :
             /\ Present(m_object.value, f) => Present(m_validated, f)
             /\ f \notin KnownKeys(m_object.kind) => m_validated[f] = m_object.value[f]
             /\ (/\ IsNull(m_object.value, f)
                 /\ <<m_object.kind, f>> \notin defaulted)
                   => m_validated[f] = m_object.value[f]

\* C23 (as stated): an accepted tier, pricing record or provider keeps
\* every key it was given; every key the validator does not know and every
\* known key that holds null keeps its value; no object is rejected
\* because of a key the validator does not know.
C23_UnknownAndNullKeysPassThrough ==
    (pc = "validated" /\ m_object.kind \in ObjectKinds) => PassesThrough({})

\* the null keys validate_pricing_record replaces by a default
DefaultedWhenNull == {<<"pricing", "pricing_model">>, <<"pricing", "tiers">>}

\* C23 (amended): the same, except that a pricing record's null
\* pricing_model becomes "unknown" and its null tiers an empty list.
C23_PassThroughExceptDefaultedNulls ==
    (pc = "validated" /\ m_object.kind \in ObjectKinds) => PassesThrough(DefaultedWhenNull)

C23_Witness ==
    /\ pc = "validated"
    /\ m_verdict = "ok"
    /\ m_object.kind = "tier"
    /\ m_object.value.gb = Null
    /\ m_object.value.period_days = Num(7)
    /\ m_validated.gb = Null
    /\ m_validated.period_days = Num(7)


\* the validated document of a list of records, were the two shapes
\* equivalent: the validated records, last_updated defaulted to today and
\* total_count to the number of records
ValidatedWrapping(kind, items) ==
    IF kind = "providers_data"
    THEN validate_providers_data(Wrapping(items, Absent, Absent), today)
    ELSE validate_pricing_data(Wrapping(items, Absent, Absent), today)

\* C24: validating a bare list of records yields the validated document of
\* the object wrapping the same records and no metadata, with last_updated
\* defaulted and total_count the number of records; a top-level value that
\* is neither a list nor an object with the providers/pricing key raises
\* before any record is validated.
C24_BareListValidatesAsWrappingObject ==
    (pc = "validated" /\ m_object.kind \in {"providers_data", "pricing_data"})
        => /\ (m_object.value.shape = "list" /\ m_verdict = "ok")
                => /\ m_validated = ValidatedWrapping(m_object.kind, m_object.value.items).value
                   /\ m_validated.last_updated = Num(today)
                   /\ m_validated.total_count = Num(Len(m_object.value.items))
           /\ (\/ m_object.value.shape \notin {"list", "object"}
               \/ m_object.value.shape = "object" /\ ~m_object.value.has_key)
                => /\ m_verdict = "raised"
                   /\ Len(m_error.path) = 1
                   /\ m_error.path[1].name \in {"providers_data", "pricing_data"}


\* the file cannot be loaded, or its document does not validate
ProvidersFileFails(file) ==
    ~file.exists \/ ~file.parses \/ validate_providers_data(file.data, today).status = "raised"
PricingFileFails(file) ==
    ~file.exists \/ ~file.parses \/ validate_pricing_data(file.data, today).status = "raised"

\* the name of a file is among the errors main reports
Reports(errors, text) == \E i \in 1..Len(errors) : errors[i] = text

\* C25: main validates the pricing file whatever became of the providers
\* file and reports each file that failed; it exits with 1 exactly when a
\* file failed to load or validate; the cross-reference check runs only
\* when both files validated, and what it finds does not change the exit
\* code.
C25_ExitOneIffAFileFailed ==
    (pc = "validated" /\ m_object.kind = "files")
        => LET providers_failed == ProvidersFileFails(m_object.value.providers)
               pricing_failed == PricingFileFails(m_object.value.pricing)
           IN  /\ providers_failed <=> Reports(m_validated.errors, "Providers validation failed")
               /\ pricing_failed <=> Reports(m_validated.errors, "Pricing validation failed")
               /\ m_validated.exit = 1 <=> (providers_failed \/ pricing_failed)
               /\ m_validated.exit \in {0, 1}
               /\ m_validated.cross_referenced <=> (~providers_failed /\ ~pricing_failed)
               /\ ~m_validated.cross_referenced => m_validated.findings = NoFindings

\* both files fail, and both are reported
C25_Witness ==
    /\ pc = "validated"
    /\ m_object.kind = "files"
    /\ m_validated.errors = <<"Providers validation failed", "Pricing validation failed">>
    /\ m_validated.exit = 1

\* both files validate, the check finds a pricing record of an unknown
\* provider and a provider without pricing, and main exits with 0
C25_FindingsDoNotFail ==
    /\ pc = "validated"
    /\ m_object.kind = "files"
    /\ m_validated.findings.orphaned_pricing # {}
    /\ m_validated.findings.providers_without_pricing # {}
    /\ m_validated.exit = 0


\* ------------------------------------------------------------------------
\* Properties of run_pipeline

AllSucceeded(steps) == \A i \in 1..Len(steps) : steps[i].ran /\ steps[i].returncode = 0

\* C26: run_pipeline runs Parse CSV, Normalize Data and, unless
\* skip_validation, Validate Output, a step only after every earlier step
\* exited with 0; after the first failing step no later step and no
\* frontend check runs and the result is failure; the result is success
\* only if every step succeeded and both frontend documents exist; the
\* process exits with 1 exactly when the result is failure.
C26_StepsRunInOrderUntilFirstFailure ==
    step # "idle" =>
        LET steps == m_run.steps
        IN  /\ [i \in 1..Len(steps) |-> steps[i].name]
                  = IF skip_validation THEN <<"Parse CSV", "Normalize Data">>
                    ELSE <<"Parse CSV", "Normalize Data", "Validate Output">>
            /\ \A i \in 1..Len(steps) :
                  steps[i].ran => \A j \in 1..(i - 1) : steps[j].ran /\ steps[j].returncode = 0
            /\ m_run.verified # "not run" => AllSucceeded(steps)
            /\ (\E i \in 1..Len(steps) : steps[i].ran /\ steps[i].returncode # 0)
                  => /\ outcome = "failure"
                     /\ step = "done"
                     /\ m_run.verified = "not run"
            /\ outcome = "success"
                  => /\ AllSucceeded(steps)
                     /\ providers_json.exists
                     /\ pricing_json.exists
            /\ step = "done" => /\ outcome \in {"success", "failure"}
                                /\ m_run.exit = 1 <=> outcome = "failure"
                                /\ m_run.exit = 0 <=> outcome = "success"
            /\ step # "done" => m_run.exit = NoExit

\* a run stopped by the validator: the two steps before it succeeded, the
\* frontend documents are written, and the result is failure
C26_Witness ==
    /\ step = "done"
    /\ Len(m_run.steps) = 3
    /\ m_run.steps[2].returncode = 0
    /\ m_run.steps[3].ran
    /\ m_run.steps[3].returncode = 1
    /\ m_run.verified = "not run"
    /\ m_run.exit = 1


\* ------------------------------------------------------------------------
\* Properties of the tiers the parser returns

\* the invariant of a pricing tier: no numeric field is negative, and ips,
\* proxies and threads are positive when present
PricingTierInvariant(tier) ==
    /\ \A f \in TierNumbers : ~Negative(tier[f])
    /\ \A f \in Counts : IsNum(tier[f]) => tier[f].v > 0

\* the tier after validate_and_fix_tiers passes validate_tier
AcceptedOnceNormalized(tier) ==
    LET fixed == validate_and_fix_tiers(<<tier>>)
    IN  /\ fixed.status = "ok"
        /\ validate_tier(fixed.value[1]).status = "ok"

\* C27: every tier parse_tier_line returns satisfies the invariant of a
\* pricing tier, and is accepted by validate_tier once normalized, lines
\* that state a count of zero included.
C27_ParsedTierSatisfiesInvariant ==
    (pc = "parsed" /\ m_tier # <<>>)
        => /\ PricingTierInvariant(m_tier[1])
           /\ AcceptedOnceNormalized(m_tier[1])


\* the tier is that of a rule for a range of GB, or for a range of IPs
FromGbRange ==
    \/ match_gb_range(TrimmedLine).out = m_tier
    \/ match_gb_range_compact(TrimmedLine).out = m_tier
FromIpRange == match_ip_range(TrimmedLine).out = m_tier

\* C28: a tier produced by a rule for a bounded range carries both bounds
\* of the range, the stated unit price, a quantity of 1, and is_payg true.
C28_RangeTierIsPayg ==
    (pc = "parsed" /\ m_tier # <<>>)
        => /\ FromGbRange
                => /\ IsNum(m_tier[1].min_gb) /\ IsNum(m_tier[1].max_gb)
                   /\ IsNum(m_tier[1].price_per_gb)
                   /\ m_tier[1].total = m_tier[1].price_per_gb
                   /\ m_tier[1].gb = Num(U(1))
                   /\ m_tier[1].is_payg = Bool(TRUE)
           /\ FromIpRange
                => /\ IsNum(m_tier[1].min_ips) /\ IsNum(m_tier[1].max_ips)
                   /\ IsNum(m_tier[1].price_per_ip)
                   /\ m_tier[1].total = m_tier[1].price_per_ip
                   /\ m_tier[1].ips = Num(1)
                   /\ m_tier[1].is_payg = Bool(TRUE)


\* a field of the tier holds what a division by zero leaves
Crashed(tier) == \E f \in TierNumbers : tier[f] = Num(ZeroDivisionError)

\* the tier is that of the rule (one of the rules that divide)
TierOf(rule_result) == m_tier # <<>> /\ rule_result.out = m_tier

\* C29: no rule divides by zero.  Where a rule derives a field by a
\* division and the divisor is zero, the line yields a tier whose derived
\* field is 0 or omitted, or no tier, and never an error;
\* validate_and_fix_tiers leaves a tier with gb = 0 unchanged.
C29_ZeroDivisorNeverRaises ==
    pc = "parsed" =>
        /\ m_tier # <<>> => ~Crashed(m_tier[1])
        /\ (\/ TierOf(match_gb_colon_monthly(TrimmedLine))
            \/ TierOf(match_monthly(TrimmedLine)))
              => (m_tier[1].gb = Num(0) => m_tier[1].price_per_gb = Num(0))
        /\ (\/ TierOf(match_month_total_per_gb(TrimmedLine))
            \/ TierOf(match_total_per_gb(TrimmedLine)))
              => (m_tier[1].price_per_gb = Num(0) => m_tier[1].gb = Num(0))
        /\ TierOf(match_total_over_ips(TrimmedLine)) => m_tier[1].ips.v > 0
        /\ TierOf(match_month_total_per_port(TrimmedLine))
              => (m_tier[1].proxies = Absent \/ m_tier[1].proxies.v > 0)
        /\ TierOf(match_total_month_price_ip(TrimmedLine))
              => (m_tier[1].price_per_ip = Num(0) => m_tier[1].ips = Absent)
        /\ (m_tier # <<>> /\ m_tier[1].gb = Num(0))
              => validate_and_fix_tiers(m_tier) = Ok(m_tier)

\* "$0/mo: $0/GB": the rule that divides the total by the price decides,
\* the price is zero, and the quantity it derives is 0
C29_Witness ==
    /\ pc = "parsed"
    /\ TierOf(match_month_total_per_gb(TrimmedLine))
    /\ m_tier[1].price_per_gb = Num(0)
    /\ m_tier[1].gb = Num(0)


\* C30: for a line "X GB: $Y/GB", whose total the parser infers as
\* round(X * Y, 2), validate_and_fix_tiers leaves price_per_gb at the
\* stated Y.
C30_RepairKeepsStatedUnitPrice ==
    (pc = "parsed" /\ TierOf(match_gb_colon(TrimmedLine)))
        => LET fixed == validate_and_fix_tiers(m_tier)
           IN  /\ fixed.status = "ok"
               /\ fixed.value[1].price_per_gb = m_tier[1].price_per_gb

====
